---- MODULE Spec2Model ----
(***************************************************************************)
(* go-contextual: a cancellable coordination scope (Cancellable) wrapping  *)
(* a context.Context, a cancel-cause function and a shared errgroup.Group. *)
(*                                                                         *)
(* Contexts of the standard library are modelled as nodes of a forest:     *)
(* every node has a parent (0 is context.Background), a terminal error     *)
(* (Err), a cause (context.Cause) and, for a timerCtx, a deadline and the  *)
(* cause its timer reports.  A scope reads one node (its ctx field) and    *)
(* owns a cancel closure: the pushed cleanup functions and a base cancel   *)
(* function of some node, which either forwards the cause                  *)
(* (context.CancelCauseFunc) or drops it (CancelCauseWrap).                *)
(***************************************************************************)
EXTENDS Integers, Sequences, FiniteSets, TLC

\* ---------------------------------------------------------------- bounds
MaxScopes == 2
MaxCaller == 1
MaxTime == 2
MaxTasks == 1
MaxPush == 2
MaxCalls == 3
MaxCancels == 2
MaxOpts == 3
MaxStr == 3
MaxWork == 2

\* ---------------------------------------------------------------- values
Nil == "nil"
Canceled == "Canceled"
DeadlineExceeded == "DeadlineExceeded"
\* errors a caller or a task can supply
Errs == {"e1", "e2"}
\* the error a failing task returns, the cause a caller gives its own context
TaskErrs == {"te"}
CallerErrs == {"ce"}
\* a stored value: its dynamic type t, its number n (the integer kinds; 1
\* for the bool true) and its characters s (text)
Val(t, n, s) == [t |-> t, n |-> n, s |-> s]
IntVal(t, n) == Val(t, n, <<>>)
StrVal(s) == Val("string", 0, s)
BoolVal(b) == Val("bool", IF b THEN 1 ELSE 0, <<>>)
NilVal == Val("nil", 0, <<>>)
\* the sync.Map has no entry for the key
Absent == Val("absent", 0, <<>>)

Keys == {"k1", "k2"}
Vals == {StrVal(<<"a">>), IntVal("int", 1)}

VARIABLES nodes, scopes, groups, now, calls

vars == <<nodes, scopes, groups, now, calls>>

\* ------------------------------------------------- standard-library contexts
RECURSIVE AncOrSelf(_, _)
\* n and every context n is derived from (0, Background, left out)
AncOrSelf(ns, n) ==
    IF n = 0 THEN {} ELSE {n} \cup AncOrSelf(ns, ns[n].parent)

\* the context a context asks for what it does not hold itself (Deadline,
\* Value): the Context it embeds.  A context derived from a plain context
\* embeds that context (parent).  One derived from a scope (via # 0)
\* embeds the *Cancellable, whose Deadline and Value are those of the
\* context the scope reads at the time of the call
Embedded(ns, scs, n) ==
    IF ns[n].via # 0 THEN scs[ns[n].via].ctx ELSE ns[n].parent

\* n and the contexts that enclose it: the one it embeds, the one that one
\* embeds, and so on up to Background (0, left out)
RECURSIVE Enclosing(_, _, _)
Enclosing(ns, scs, n) ==
    IF n = 0 THEN {} ELSE {n} \cup Enclosing(ns, scs, Embedded(ns, scs, n))

\* ctx.Value(baseKey): the value of the nearest context.WithValue context
\* for that key, nil when there is none
RECURSIVE ValueOf(_, _, _)
ValueOf(ns, scs, n) ==
    IF n = 0 THEN Nil
    ELSE IF ns[n].kind = "value" THEN "baseValue"
    ELSE ValueOf(ns, scs, Embedded(ns, scs, n))

\* context.Context.Deadline: a timerCtx reports its own deadline, every other
\* context that of the context it embeds; 0 is "no deadline"
RECURSIVE DeadlineOf(_, _, _)
DeadlineOf(ns, scs, n) ==
    IF n = 0 THEN 0
    ELSE IF ns[n].kind = "timer" THEN ns[n].dl
    ELSE DeadlineOf(ns, scs, Embedded(ns, scs, n))

\* cancelCtx.cancel(_, err, cause) without the set-once test: a second
\* cancellation overwrites err and cause
cancelNodeOverwrite(ns, n, err, cause) ==
    LET c == IF cause = Nil THEN err ELSE cause
    IN  [m \in DOMAIN ns |->
            IF n \in AncOrSelf(ns, m)
            THEN [ns[m] EXCEPT !.err = err, !.cause = c]
            ELSE ns[m]]

\* cancelCtx.cancel(_, err, cause): nothing if the node is closed already;
\* otherwise err and cause (err when cause is nil) are recorded, Done is
\* closed, and every open context derived from the node is cancelled with
\* the same err and cause, all under the node's mutex
cancelNode(ns, n, err, cause) ==
    LET c == IF cause = Nil THEN err ELSE cause
    IN  IF ns[n].err # Nil THEN ns
        ELSE [m \in DOMAIN ns |->
                IF ns[m].err = Nil /\ n \in AncOrSelf(ns, m)
                THEN [ns[m] EXCEPT !.err = err, !.cause = c]
                ELSE ns[m]]

\* a new context derived from pn (propagateCancel: born cancelled, with the
\* parent's Err and Cause, when the parent is closed already; registered
\* with pn for cancellation from then on); via is the scope the context
\* was derived through, 0 for a plain context; stopped is for a
\* signal.NotifyContext context: its stop function has been called
childNode(ns, pn, via, kind, dl, dcause) ==
    [parent |-> pn, via |-> via, kind |-> kind, dl |-> dl, dcause |-> dcause,
     err |-> IF pn = 0 THEN Nil ELSE ns[pn].err,
     cause |-> IF pn = 0 THEN Nil ELSE ns[pn].cause,
     stopped |-> FALSE]

\* variant of context.WithDeadlineCause: the new context always gets a
\* timer for d, whatever deadline the parent has
withDeadlineNodeOwn(ns, scs, pn, via, d, cause, t) ==
    LET ns1 == Append(ns, childNode(ns, pn, via, "timer", d, cause))
    IN  IF d <= t
        THEN cancelNode(ns1, Len(ns1), DeadlineExceeded, cause)
        ELSE ns1

\* context.WithDeadlineCause(parent, d, cause) at time t: a plain cancel child
\* when the parent's deadline is sooner; otherwise a timerCtx, cancelled at
\* once with DeadlineExceeded when d has passed already
withDeadlineNode(ns, scs, pn, via, d, cause, t) ==
    LET cur == DeadlineOf(ns, scs, pn)
    IN  IF cur # 0 /\ cur < d
        THEN Append(ns, childNode(ns, pn, via, "cancel", 0, Nil))
        ELSE LET ns1 == Append(ns, childNode(ns, pn, via, "timer", d, cause))
             IN  IF d <= t
                 THEN cancelNode(ns1, Len(ns1), DeadlineExceeded, cause)
                 ELSE ns1

\* ------------------------------------------------------------ the scope
ErrOf(ns, n) == ns[n].err
CauseOf(ns, n) == ns[n].cause

\* Cancellable.Err, Cancellable.Done (closed or not), context.Cause(scope)
Err(s) == ErrOf(nodes, scopes[s].ctx)
Closed(s) == Err(s) # Nil
Cause(s) == CauseOf(nodes, scopes[s].ctx)
Deadline(s) == DeadlineOf(nodes, scopes, scopes[s].ctx)

ScopeIds == 1..Len(scopes)
NodeIds == 1..Len(nodes)

EmptyValues == [k \in Keys |-> Absent]

\* goroutines of the caller that call into a scope concurrently
Threads == 1..MaxCalls
Idle == [st |-> "idle"]

\* goroutines that have not been started are alike: the one a step starts
\* is the first idle one of T
FirstIdle(t, T) ==
    /\ t \in T
    /\ calls[t].st = "idle"
    /\ \A u \in T : u < t => calls[u].st # "idle"

\* &Cancellable{ctx, cancel, errg}: the values map is the zero sync.Map.
\* c.cancel is the base cancel function (tgt: the context it cancels, wrap:
\* through CancelCauseWrap) under the pushed functions it has been wrapped
\* in (chain, outermost first); dropped are pushed functions that c.cancel
\* no longer reaches, because a later store replaced the closure that held
\* them (closures loaded earlier still call them)
newScope(n, tgt, wrap, g, from, how) ==
    [ctx |-> n, tgt |-> tgt, wrap |-> wrap, chain |-> <<>>, dropped |-> {},
     errg |-> g, from |-> from, how |-> how, labels |-> FALSE,
     values |-> EmptyValues]

\* CloneWithNewContext keeping the receiver's cancel function
CloneKeepCancel(p, n, tgt, wrap, how) ==
    newScope(n, scopes[p].tgt, scopes[p].wrap, scopes[p].errg, p, how)

\* Cancellable.CloneWithNewContext(ctx, cancel)
CloneWithNewContext(p, n, tgt, wrap, how) ==
    newScope(n, tgt, wrap, scopes[p].errg, p, how)

\* the stop function of signal.NotifyContext, after it has cancelled the
\* context: signal.Stop unregisters the listener
stopListener(ns, n) ==
    IF ns[n].kind = "signal" THEN [ns EXCEPT ![n].stopped = TRUE] ELSE ns

\* variant of the base of c.cancel: the supplied cause becomes the error
baseCancelErrIsCause(ns, sc, cause) ==
    IF sc.wrap
    THEN stopListener(cancelNode(ns, sc.tgt, Canceled, Nil), sc.tgt)
    ELSE cancelNode(ns, sc.tgt, IF cause = Nil THEN Canceled ELSE cause, cause)

\* variant of the base of c.cancel: the wrapped cancel function reports
\* the cause the deadline was given
baseCancelDeadlineCause(ns, sc, cause) ==
    IF sc.wrap
    THEN stopListener(cancelNode(ns, sc.tgt, Canceled, ns[sc.tgt].dcause), sc.tgt)
    ELSE cancelNode(ns, sc.tgt, Canceled, cause)

\* the base of c.cancel: a context.CancelCauseFunc, or CancelCauseWrap(cancel),
\* which calls cancel() and drops the cause; the cancel function of a
\* signal context is its stop function
baseCancel(ns, sc, cause) ==
    IF sc.wrap
    THEN stopListener(cancelNode(ns, sc.tgt, Canceled, Nil), sc.tgt)
    ELSE cancelNode(ns, sc.tgt, Canceled, cause)

\* the value of the field c.cancel of scope record sc: the base cancel
\* function and the pushed functions wrapped around it, outermost first
closure(sc) ==
    [tgt |-> sc.tgt, wrap |-> sc.wrap,
     chain |-> [i \in DOMAIN sc.chain |->
                  [kind |-> sc.chain[i].kind, id |-> sc.chain[i].id]]]

\* goroutine t enters Cancel (e = Canceled) or CancelWithCause(e) on scope
\* s and loads the scope's cancel function (fn): the pushed functions it
\* wraps (rest: those the call has still to run) and the base; log is
\* what the call has run, open whether Done of s was open at that time
EnterCancel(t, s, e) ==
    /\ calls[t].st = "idle"
    /\ calls' = [calls EXCEPT ![t] =
            [st |-> "cancelling", s |-> s, e |-> e, fn |-> closure(scopes[s]),
             rest |-> closure(scopes[s]).chain, log |-> <<>>,
             open |-> ~Closed(s)]]
    /\ UNCHANGED <<nodes, scopes, groups, now>>

\* the function pushed as number id has run once more: its call count and,
\* for a cause function, the argument it was handed
ranOnce(chain, id, kind, cause) ==
    [i \in DOMAIN chain |->
        IF chain[i].id = id
        THEN [chain[i] EXCEPT !.runs = @ + 1,
                              !.arg = IF kind = "causefunc" THEN cause ELSE @]
        ELSE chain[i]]

\* f() or f(cause) for the pushed function f of scope record sc, wherever
\* the function is
ranIn(sc, f, cause) ==
    [sc EXCEPT !.chain = ranOnce(@, f.id, f.kind, cause),
               !.dropped = {ranOnce(<<x>>, f.id, f.kind, cause)[1] : x \in @}]

\* variant of the pushed closure: a cause function is handed Canceled
\* whatever the call was given
CallPushedDropCause(t) ==
    /\ calls[t].st = "cancelling"
    /\ calls[t].rest # <<>>
    /\ LET f == Head(calls[t].rest)
           s == calls[t].s
       IN  /\ scopes' = [scopes EXCEPT ![s] = ranIn(@, f, Canceled)]
           /\ calls' = [calls EXCEPT
                   ![t].rest = Tail(@),
                   ![t].log = Append(@, [id |-> f.id, kind |-> f.kind,
                                         arg |-> IF f.kind = "causefunc"
                                                 THEN Canceled ELSE Nil])]
    /\ UNCHANGED <<nodes, groups, now>>

\* the closure made by the last push not yet run calls its function, f()
\* or f(cause), and goes on to the closure it wraps
CallPushed(t) ==
    /\ calls[t].st = "cancelling"
    /\ calls[t].rest # <<>>
    /\ LET f == Head(calls[t].rest)
           s == calls[t].s
       IN  /\ scopes' = [scopes EXCEPT ![s] = ranIn(@, f, calls[t].e)]
           /\ calls' = [calls EXCEPT
                   ![t].rest = Tail(@),
                   ![t].log = Append(@, [id |-> f.id, kind |-> f.kind,
                                         arg |-> IF f.kind = "causefunc"
                                                 THEN calls[t].e ELSE Nil])]
    /\ UNCHANGED <<nodes, groups, now>>

\* the innermost closure is the base cancel function the scope was made
\* with; the call returns
CallBase(t) ==
    /\ calls[t].st = "cancelling"
    /\ calls[t].rest = <<>>
    /\ nodes' = baseCancel(nodes, calls[t].fn, calls[t].e)
    /\ calls' = [calls EXCEPT
            ![t].st = "returned",
            ![t].log = Append(@, [id |-> 0, kind |-> "base", arg |-> calls[t].e])]
    /\ UNCHANGED <<scopes, groups, now>>

\* c.cancel(cause): when no function has been pushed, c.cancel is the base
\* cancel function and the call is that one call, atomic under the mutex
\* of the context.  Otherwise c.cancel is a closure and the call takes
\* steps, between which other goroutines run: here a goroutine enters it
\* (the goroutines are alike, the first idle one of MaxCancels is taken),
\* CallPushed and CallBase carry it on
callCancel(s, cause) ==
    IF scopes[s].chain = <<>>
    THEN /\ nodes' = baseCancel(nodes, scopes[s], cause)
         /\ UNCHANGED <<scopes, groups, now, calls>>
    ELSE \E t \in 1..MaxCancels :
            /\ \A u \in 1..(t - 1) : calls[u].st # "idle"
            /\ EnterCancel(t, s, cause)

\* ---------------------------------------------------------------- Init
\* NewCancellable: node 1 is the context.WithCancelCause context whose
\* cancel function the scope keeps, node 2 the errgroup's context derived
\* from it, which the scope reads
RootNodes ==
    << childNode(<<>>, 0, 0, "cancel", 0, Nil),
       [parent |-> 1, via |-> 0, kind |-> "cancel", dl |-> 0, dcause |-> Nil,
        err |-> Nil, cause |-> Nil, stopped |-> FALSE] >>

RootScope == newScope(2, 1, FALSE, 1, 0, "New")

\* contextual.New(context.Background())
Init ==
    /\ nodes = RootNodes
    /\ scopes = << RootScope >>
    /\ groups = << [n |-> 0, w |-> 0, sema |-> 0, err |-> Nil, ctx |-> 2] >>
    /\ now = 1
    /\ calls = [t \in Threads |-> Idle]

\* contextual.New(context.Background(), opts...) with no option or with
\* WithTimeoutOption(1): the option is applied to the base scope and the
\* scope it returns (the last one) is the constructor's result
InitNew ==
    /\ \E opt \in {"none", "timeout"} :
        IF opt = "none"
        THEN /\ nodes = RootNodes
             /\ scopes = << RootScope >>
        ELSE /\ nodes = withDeadlineNode(RootNodes, << RootScope >>, 2, 1, 1 + 1, Nil, 1)
             /\ scopes = << RootScope, newScope(3, 3, TRUE, 1, 1, "deadline") >>
    /\ groups = << [n |-> 0, w |-> 0, sema |-> 0, err |-> Nil, ctx |-> 2] >>
    /\ now = 1
    /\ calls = [t \in Threads |-> Idle]

\* the scope the constructor returned
Top == Len(scopes)

\* ------------------------------------------------------------- actions
Room == Len(scopes) < MaxScopes

\* contexts the caller made itself (bounded)
CallerNodes == {n \in NodeIds : nodes[n].kind = "caller"}
CallerRoom == Cardinality(CallerNodes) < MaxCaller

\* Cancellable.Cancel: c.cancel(context.Canceled)
Cancel(s) == callCancel(s, Canceled)

\* Cancellable.CancelWithCause: c.cancel(err)
CancelWithCause(s, e) == callCancel(s, e)

\* variant of PushCancelFunc: the function runs after the functions pushed
\* before it
PushCancelFuncLast(s) ==
    /\ Len(scopes[s].chain) < MaxPush
    /\ scopes' = [scopes EXCEPT
                    ![s].chain = @ \o <<[kind |-> "func", id |-> Len(@) + 1,
                                         runs |-> 0, arg |-> Nil]>>]
    /\ UNCHANGED <<nodes, groups, now, calls>>

\* PushCancelFunc: c.cancel becomes f(); cancel(cause).  id numbers the
\* functions of a scope in the order they were pushed
PushCancelFunc(s) ==
    /\ Len(scopes[s].chain) < MaxPush
    /\ scopes' = [scopes EXCEPT
                    ![s].chain = <<[kind |-> "func", id |-> Len(@) + 1,
                                     runs |-> 0, arg |-> Nil]>> \o @]
    /\ UNCHANGED <<nodes, groups, now, calls>>

\* PushCancelCauseFunc: c.cancel becomes f(cause); cancel(cause)
PushCancelCauseFunc(s) ==
    /\ Len(scopes[s].chain) < MaxPush
    /\ scopes' = [scopes EXCEPT
                    ![s].chain = <<[kind |-> "causefunc", id |-> Len(@) + 1,
                                     runs |-> 0, arg |-> Nil]>> \o @]
    /\ UNCHANGED <<nodes, groups, now, calls>>

\* variant of WithCancel: the new context is derived from Background
WithCancelDetached(p) ==
    /\ Room
    /\ nodes' = Append(nodes, childNode(nodes, 0, 0, "cancel", 0, Nil))
    /\ scopes' = Append(scopes,
            CloneWithNewContext(p, Len(nodes) + 1, Len(nodes) + 1, FALSE, "cancel"))
    /\ UNCHANGED <<groups, now, calls>>

\* WithCancel / WithCancelCause: the clone reads and cancels a new
\* context.WithCancelCause child of the parent scope's context
WithCancel(p) ==
    /\ Room
    /\ nodes' = Append(nodes, childNode(nodes, scopes[p].ctx, p, "cancel", 0, Nil))
    /\ scopes' = Append(scopes,
            CloneWithNewContext(p, Len(nodes) + 1, Len(nodes) + 1, FALSE, "cancel"))
    /\ UNCHANGED <<groups, now, calls>>

WithCancelCause(p) == WithCancel(p)

\* WithDeadlineCause, parent a contextual.Context: the clone reads the
\* context.WithDeadlineCause child and cancels it through CancelCauseWrap
WithDeadlineCause(p, d, cause) ==
    /\ Room
    /\ nodes' = withDeadlineNode(nodes, scopes, scopes[p].ctx, p, d, cause, now)
    /\ scopes' = Append(scopes,
            CloneWithNewContext(p, Len(nodes) + 1, Len(nodes) + 1, TRUE, "deadline"))
    /\ UNCHANGED <<groups, now, calls>>

WithDeadline(p, d) == WithDeadlineCause(p, d, Nil)

WithTimeoutCause(p, timeout, cause) == WithDeadlineCause(p, now + timeout, cause)

WithTimeout(p, timeout) == WithDeadline(p, now + timeout)

\* WithDeadlineCause, parent a plain context (here context.Background):
\* NewCancellable(rootCtx), a new root scope with its own group, reading the
\* errgroup context under a WithCancelCause context under the timerCtx
NewWithDeadlineCause(d, cause) ==
    /\ Room
    /\ LET ns1 == withDeadlineNode(nodes, scopes, 0, 0, d, cause, now)
           t   == Len(ns1)
           ns2 == Append(ns1, childNode(ns1, t, 0, "cancel", 0, Nil))
           ns3 == Append(ns2, childNode(ns2, t + 1, 0, "cancel", 0, Nil))
       IN  /\ nodes' = ns3
           /\ scopes' = Append(scopes,
                   newScope(t + 2, t + 1, FALSE, Len(groups) + 1, 0, "deadline"))
           /\ groups' = Append(groups, [n |-> 0, w |-> 0, sema |-> 0,
                                        err |-> Nil, ctx |-> t + 2])
    /\ UNCHANGED <<now, calls>>

\* WithSignalCancel / WithSignalCancelOption: signal.NotifyContext child,
\* cancelled through CancelCauseWrap(stop)
WithSignalCancel(p) ==
    /\ Room
    /\ nodes' = Append(nodes, childNode(nodes, scopes[p].ctx, p, "signal", 0, Nil))
    /\ scopes' = Append(scopes,
            CloneWithNewContext(p, Len(nodes) + 1, Len(nodes) + 1, TRUE, "signal"))
    /\ UNCHANGED <<groups, now, calls>>

\* CloneWithNewContext called with a context of the caller's own
\* (context.WithCancelCause(context.Background())) and its cancel function
Clone(p) ==
    /\ Room
    /\ CallerRoom
    /\ nodes' = Append(nodes, childNode(nodes, 0, 0, "caller", 0, Nil))
    /\ scopes' = Append(scopes,
            CloneWithNewContext(p, Len(nodes) + 1, Len(nodes) + 1, FALSE, "clone"))
    /\ UNCHANGED <<groups, now, calls>>

\* variant of ReplaceContext: the scope's cancel function is pointed at
\* the new context as well
ReplaceContextRetarget(s, cb) ==
    /\ cb \in {"labels", "fresh"}
    /\ IF cb = "labels"
       THEN /\ ~scopes[s].labels
            /\ nodes' = Append(nodes,
                    childNode(nodes, scopes[s].ctx, 0, "labels", 0, Nil))
            /\ scopes' = [scopes EXCEPT ![s].labels = TRUE,
                                        ![s].ctx = Len(nodes) + 1,
                                        ![s].tgt = Len(nodes) + 1]
       ELSE /\ CallerRoom
            /\ nodes' = Append(nodes, childNode(nodes, 0, 0, "caller", 0, Nil))
            /\ scopes' = [scopes EXCEPT ![s].ctx = Len(nodes) + 1,
                                        ![s].tgt = Len(nodes) + 1]
    /\ UNCHANGED <<groups, now, calls>>

\* variant of ReplaceContext: the labelled context is made from Background
\* instead of from c.ctx
ReplaceContextUnderBackground(s, cb) ==
    /\ cb \in {"labels", "fresh"}
    /\ IF cb = "labels"
       THEN /\ ~scopes[s].labels
            /\ nodes' = Append(nodes, childNode(nodes, 0, 0, "labels", 0, Nil))
            /\ scopes' = [scopes EXCEPT ![s].labels = TRUE,
                                        ![s].ctx = Len(nodes) + 1]
       ELSE /\ CallerRoom
            /\ nodes' = Append(nodes, childNode(nodes, 0, 0, "caller", 0, Nil))
            /\ scopes' = [scopes EXCEPT ![s].ctx = Len(nodes) + 1]
    /\ UNCHANGED <<groups, now, calls>>

\* ReplaceContext(cb): c.ctx = cb(c.ctx).  cb either returns
\* pprof.WithLabels(ctx, labelSet), a value context derived from the one
\* the scope read (WithPProfLabels, once for a scope), or an unrelated
\* context of the caller's
ReplaceContext(s, cb) ==
    /\ cb \in {"labels", "fresh"}
    /\ IF cb = "labels"
       THEN /\ ~scopes[s].labels
            /\ nodes' = Append(nodes,
                    childNode(nodes, scopes[s].ctx, 0, "labels", 0, Nil))
            /\ scopes' = [scopes EXCEPT ![s].labels = TRUE,
                                        ![s].ctx = Len(nodes) + 1]
       ELSE /\ CallerRoom
            /\ nodes' = Append(nodes, childNode(nodes, 0, 0, "caller", 0, Nil))
            /\ scopes' = [scopes EXCEPT ![s].ctx = Len(nodes) + 1]
    /\ UNCHANGED <<groups, now, calls>>

\* the caller cancels a context of its own
CallerCancel(n, e) ==
    /\ nodes[n].kind = "caller"
    /\ nodes[n].err = Nil
    /\ nodes' = cancelNode(nodes, n, Canceled, e)
    /\ UNCHANGED <<scopes, groups, now, calls>>

\* time passes
Tick ==
    /\ now < MaxTime
    /\ now' = now + 1
    /\ UNCHANGED <<nodes, scopes, groups, calls>>

\* variant of the timer callback: the cause given to the deadline is lost
DeadlineFiresNoCause(n) ==
    /\ nodes[n].kind = "timer"
    /\ nodes[n].err = Nil
    /\ nodes[n].dl <= now
    /\ nodes' = cancelNode(nodes, n, DeadlineExceeded, Nil)
    /\ UNCHANGED <<scopes, groups, now, calls>>

\* the timer of a timerCtx fires: c.cancel(true, DeadlineExceeded, cause)
DeadlineFires(n) ==
    /\ nodes[n].kind = "timer"
    /\ nodes[n].err = Nil
    /\ nodes[n].dl <= now
    /\ nodes' = cancelNode(nodes, n, DeadlineExceeded, nodes[n].dcause)
    /\ UNCHANGED <<scopes, groups, now, calls>>

\* one of the signals arrives: the listener calls c.cancel()
SignalArrives(n) ==
    /\ nodes[n].kind = "signal"
    /\ nodes[n].err = Nil
    /\ nodes' = cancelNode(nodes, n, Canceled, Nil)
    /\ UNCHANGED <<scopes, groups, now, calls>>

\* ------------------------------------------------ tracked goroutines
\* no goroutine has panicked: an unrecovered panic ends the process
Alive == \A t \in Threads : calls[t].st \notin {"panicked", "misused"}

\* the functions handed to Go: return e (nil included) at once, or block
\* on Done of the scope they were started through and return its cause
TaskFuncs ==
    {[kind |-> "ret", e |-> e] : e \in Errs \cup {Nil}}
        \cup {[kind |-> "watch", e |-> Nil]}

\* the scope the function of goroutine t reads Done, Cause and Value of:
\* the context argument Go or GoLabelled bound it to (arg), or, for a
\* function without argument, the scope it was started through
Watched(t) ==
    IF "arg" \in DOMAIN calls[t].f /\ calls[t].f.arg # 0
    THEN calls[t].f.arg
    ELSE calls[t].s

\* the channel of time.After(d), made when the function of goroutine t
\* was started, has a value: d (one tick of the clock) has passed
TimerDue(t) == now > calls[t].t0

\* what the function of goroutine t can return now (nothing while it is
\* blocked).  A watching one returns the cause of its scope once Done is
\* closed.  One that looks up baseKey returns an error when Value gives
\* nil; otherwise it selects on Done (the cause of its scope) and on a
\* timer (nil).  One that watches Err selects on Done (Err of its scope)
\* and on a timer (an error).  A slow one selects on a timer (an error)
\* and on Done (the cause of its scope).  A select with both cases ready
\* takes either.  Any other function returns its e
Results(t) ==
    LET f    == calls[t].f
        w    == Watched(t)
        done == Closed(w)
    IN  CASE f.kind = "watch" -> IF done THEN {Cause(w)} ELSE {}
          [] f.kind = "value" ->
                IF ValueOf(nodes, scopes, scopes[w].ctx) = Nil THEN {"noval"}
                ELSE (IF done THEN {Cause(w)} ELSE {})
                        \cup (IF TimerDue(t) THEN {Nil} ELSE {})
          [] f.kind = "errwatch" ->
                (IF done THEN {Err(w)} ELSE {})
                    \cup (IF TimerDue(t) THEN {"notcancelled"} ELSE {})
          [] f.kind = "slow" ->
                (IF TimerDue(t) THEN {"slow"} ELSE {})
                    \cup (IF done THEN {Cause(w)} ELSE {})
          [] OTHER -> {f.e}

\* the goroutines errgroup.Group.Go started for group g that have not
\* called g.done() yet: their function runs, has ended, or has had its
\* error offered to errOnce
Running(g) ==
    {t \in Threads : calls[t].st \in {"task", "ended", "reported"}
                        /\ calls[t].g = g}

\* the goroutines errgroup.Group.Go has started for group g so far
Spawned(g) ==
    {t \in Threads : "f" \in DOMAIN calls[t] /\ calls[t].g = g}

\* Cancellable.Go(f) on scope s, called by goroutine u (0: a goroutine
\* outside the group, else a task of the group whose function is running):
\* errgroup.Group.Go does g.wg.Add(1) and starts f in goroutine t.  Add
\* panics ("WaitGroup misuse: Add called concurrently with Wait") in the
\* caller when it raises the counter from zero while waiters are registered;
\* t then stands for the caller.  t0 is the time a function with a timer
\* starts at; first and open are set when the function returns
Spawn(t, u, s, f) ==
    /\ Alive
    /\ calls[t].st = "idle"
    /\ u # 0 => (calls[u].st = "task" /\ calls[u].g = scopes[s].errg)
    /\ LET g == scopes[s].errg
       IN  /\ groups' = [groups EXCEPT ![g].n = @ + 1]
           /\ calls' = [calls EXCEPT ![t] =
                 IF groups[g].n = 0 /\ groups[g].w > 0
                 THEN [st |-> "misused", s |-> s, g |-> g]
                 ELSE [st |-> "task", s |-> s, g |-> g, f |-> f,
                       t0 |-> IF f.kind \in {"value", "errwatch", "slow"}
                              THEN now ELSE 0,
                       first |-> FALSE, open |-> FALSE]]
    /\ UNCHANGED <<nodes, scopes, now>>

\* the function of goroutine t returns (one that blocks only once it can,
\* a working one only when it has no statement left) to the goroutine
\* errgroup started, which holds the result e; first tells whether no
\* other function of the group had returned a non-nil error before, open
\* whether the group's context was open then
TaskReturn(t) ==
    /\ Alive
    /\ calls[t].st = "task"
    /\ calls[t].f.kind # "nil"
    /\ calls[t].f.kind = "work" => calls[t].f.left = 0
    /\ \E e \in Results(t) :
          calls' = [calls EXCEPT
            ![t].st = "ended",
            ![t].f.e = e,
            ![t].open = ErrOf(nodes, groups[calls[t].g].ctx) = Nil,
            ![t].first =
                /\ e # Nil
                /\ \A u \in Spawned(calls[t].g) \ {t} :
                      ~(/\ calls[u].st \in {"ended", "reported",
                                            "releasing", "finished"}
                        /\ calls[u].f.e # Nil)]
    /\ UNCHANGED <<nodes, scopes, groups, now>>

\* variant of errOnce.Do: the error is kept, the context not cancelled
TaskErrOnceNoCancel(t) ==
    /\ Alive
    /\ calls[t].st = "ended"
    /\ calls[t].f.e # Nil
    /\ IF groups[calls[t].g].err = Nil
       THEN groups' = [groups EXCEPT ![calls[t].g].err = calls[t].f.e]
       ELSE UNCHANGED groups
    /\ calls' = [calls EXCEPT ![t].st = "reported"]
    /\ UNCHANGED <<nodes, scopes, now>>

\* if err := f(); err != nil { g.errOnce.Do(...) }: the first goroutine of
\* the group to get here keeps its error (g.err = err) and cancels the
\* group's context with it as cause (g.cancel(g.err)); sync.Once makes the
\* others wait until that is done and then do nothing
TaskErrOnce(t) ==
    /\ Alive
    /\ calls[t].st = "ended"
    /\ calls[t].f.e # Nil
    /\ IF groups[calls[t].g].err = Nil
       THEN /\ groups' = [groups EXCEPT ![calls[t].g].err = calls[t].f.e]
            /\ nodes' = cancelNode(nodes, groups[calls[t].g].ctx, Canceled,
                                   calls[t].f.e)
       ELSE UNCHANGED <<groups, nodes>>
    /\ calls' = [calls EXCEPT ![t].st = "reported"]
    /\ UNCHANGED <<scopes, now>>

\* the deferred g.done(): g.wg.Done() takes one off the counter.  When that
\* makes it zero while waiters are registered, the goroutine goes on to
\* release them (TaskRelease); otherwise it ends
TaskDone(t) ==
    /\ Alive
    /\ \/ calls[t].st = "reported"
       \/ calls[t].st = "ended" /\ calls[t].f.e = Nil
    /\ groups' = [groups EXCEPT ![calls[t].g].n = @ - 1]
    /\ calls' = [calls EXCEPT ![t].st =
            IF groups[calls[t].g].n = 1 /\ groups[calls[t].g].w > 0
            THEN "releasing" ELSE "finished"]
    /\ UNCHANGED <<nodes, scopes, now>>

\* sync.WaitGroup.Add, the counter having reached zero with waiters
\* registered: the state is reset to zero and one wake-up is released for
\* every waiter (runtime_Semrelease); the goroutine ends (one that runs
\* its deferred calls because of a panic goes on to end the process)
TaskRelease(t) ==
    /\ Alive
    /\ calls[t].st \in {"releasing", "unwinding"}
    /\ groups' = [groups EXCEPT ![calls[t].g].sema = @ + groups[calls[t].g].w,
                                ![calls[t].g].w = 0]
    /\ calls' = [calls EXCEPT ![t].st =
            IF calls[t].st = "releasing" THEN "finished" ELSE "dying"]
    /\ UNCHANGED <<nodes, scopes, now>>

\* goroutine t calls Wait on scope s: errgroup.Group.Wait calls
\* g.wg.Wait(), which returns at once when the counter is zero and
\* otherwise registers t as a waiter and blocks it on the semaphore;
\* prior is the set of Wait calls of the group that had returned by then
WaitCall(t, s) ==
    /\ Alive
    /\ calls[t].st = "idle"
    /\ LET g == scopes[s].errg
       IN  /\ calls' = [calls EXCEPT ![t] =
                 [st |-> IF groups[g].n = 0 THEN "woken" ELSE "waiting",
                  s |-> s, g |-> g,
                  prior |-> {u \in Threads : /\ calls[u].st = "waited"
                                             /\ calls[u].g = g}]]
           /\ groups' = [groups EXCEPT
                 ![g].w = IF groups[g].n = 0 THEN @ ELSE @ + 1]
    /\ UNCHANGED <<nodes, scopes, now>>

\* a blocked waiter takes a wake-up from the semaphore and g.wg.Wait()
\* returns to goroutine t, unless the state of the WaitGroup is not zero
\* any more (Go has raised the counter, or a caller has registered since
\* the release): then it panics ("WaitGroup is reused before previous Wait
\* has returned")
WaitWake(t) ==
    /\ Alive
    /\ calls[t].st = "waiting"
    /\ groups[calls[t].g].sema > 0
    /\ groups' = [groups EXCEPT ![calls[t].g].sema = @ - 1]
    /\ calls' = [calls EXCEPT ![t].st =
            IF groups[calls[t].g].n = 0 /\ groups[calls[t].g].w = 0
            THEN "woken" ELSE "misused"]
    /\ UNCHANGED <<nodes, scopes, now>>

\* variant of the second statement of Wait: the group's context is left alone
WaitCancelSkip(t) ==
    /\ Alive
    /\ calls[t].st = "woken"
    /\ calls' = [calls EXCEPT ![t].st = "released"]
    /\ UNCHANGED <<nodes, scopes, groups, now>>

\* second statement: g.cancel(g.err) cancels the group's context with the
\* error kept at that time (no lock is held: tasks started meanwhile run)
WaitCancel(t) ==
    /\ Alive
    /\ calls[t].st = "woken"
    /\ nodes' = cancelNode(nodes, groups[calls[t].g].ctx, Canceled,
                           groups[calls[t].g].err)
    /\ calls' = [calls EXCEPT ![t].st = "released"]
    /\ UNCHANGED <<scopes, groups, now>>

\* third statement: return g.err, the error kept at that time; k is the
\* number of tasks the group had been given by then
WaitReturn(t) ==
    /\ Alive
    /\ calls[t].st = "released"
    /\ calls' = [calls EXCEPT ![t] =
            [st |-> "waited", s |-> calls[t].s, g |-> calls[t].g,
             e |-> groups[calls[t].g].err,
             k |-> Cardinality(Spawned(calls[t].g))]]
    /\ UNCHANGED <<nodes, scopes, groups, now>>

\* a function that never looks at Done: left statements to run, then it
\* returns e; late tells that it ran a statement with Done closed
WorkFuncs == {[kind |-> "work", e |-> e, left |-> MaxWork, late |-> FALSE] :
                e \in {Nil, "e2"}}

\* a working task runs its next statement
TaskStep(t) ==
    /\ Alive
    /\ calls[t].st = "task"
    /\ calls[t].f.kind = "work"
    /\ calls[t].f.left > 0
    /\ calls' = [calls EXCEPT ![t].f.left = @ - 1,
                              ![t].f.late = Closed(calls[t].s)]
    /\ UNCHANGED <<nodes, scopes, groups, now>>

\* variant of AddValue: the store is emptied before the write
AddValueClobber(s, k, v) ==
    /\ scopes[s].values[k] # v
    /\ scopes' = [scopes EXCEPT ![s].values = [EmptyValues EXCEPT ![k] = v]]
    /\ UNCHANGED <<nodes, groups, now, calls>>

\* Cancellable.AddValue
AddValue(s, k, v) ==
    /\ scopes[s].values[k] # v
    /\ scopes' = [scopes EXCEPT ![s].values[k] = v]
    /\ UNCHANGED <<nodes, groups, now, calls>>

\* Cancellable.GetE: the stored value and true, or nil and false
GetE(s, k) ==
    IF scopes[s].values[k] = Absent
    THEN <<NilVal, FALSE>>
    ELSE <<scopes[s].values[k], TRUE>>

\* Cancellable.Get: the stored value, or nil
Get(s, k) == IF GetE(s, k)[2] THEN GetE(s, k)[1] ELSE NilVal

\* the clock starts at 1 (0 stands for "no deadline")
Timeouts == {0, 1}
Deadlines == 1..MaxTime
DeadlineCauses == {Nil, "dc"}

\* the cancellation scopes: construction, derivation, cancellation, time,
\* signals and the task group (MaxTasks goroutines for tasks that return
\* nil or an error, one caller of Wait), until a panic ends the process
Next ==
    \/ \E s \in ScopeIds : Alive /\ Cancel(s)
    \/ \E s \in ScopeIds, e \in Errs \cup {Nil} : Alive /\ CancelWithCause(s, e)
    \/ \E p \in ScopeIds : Alive /\ WithCancel(p)
    \/ \E p \in ScopeIds : Alive /\ WithCancelCause(p)
    \/ \E p \in ScopeIds, d \in Deadlines, c \in DeadlineCauses :
            Alive /\ WithDeadlineCause(p, d, c)
    \/ \E p \in ScopeIds, d \in Deadlines : Alive /\ WithDeadline(p, d)
    \/ \E p \in ScopeIds, t \in Timeouts, c \in DeadlineCauses :
            Alive /\ WithTimeoutCause(p, t, c)
    \/ \E p \in ScopeIds, t \in Timeouts : Alive /\ WithTimeout(p, t)
    \/ \E d \in Deadlines, c \in DeadlineCauses :
            Alive /\ NewWithDeadlineCause(d, c)
    \/ \E p \in ScopeIds : Alive /\ WithSignalCancel(p)
    \/ \E p \in ScopeIds : Alive /\ Clone(p)
    \/ \E s \in ScopeIds : Alive /\ ReplaceContext(s, "fresh")
    \/ \E n \in NodeIds, e \in CallerErrs : Alive /\ CallerCancel(n, e)
    \/ Alive /\ Tick
    \/ \E n \in NodeIds : Alive /\ DeadlineFires(n)
    \/ \E n \in NodeIds : Alive /\ SignalArrives(n)
    \/ \E t \in 1..MaxTasks, s \in ScopeIds, e \in TaskErrs \cup {Nil} :
            Spawn(t, 0, s, [kind |-> "ret", e |-> e])
    \/ \E t \in Threads : TaskReturn(t)
    \/ \E t \in Threads : TaskErrOnce(t)
    \/ \E t \in Threads : TaskDone(t)
    \/ \E t \in Threads : TaskRelease(t)
    \/ \E s \in ScopeIds : WaitCall(MaxCalls, s)
    \/ \E t \in Threads : WaitWake(t)
    \/ \E t \in Threads : WaitCancel(t)
    \/ \E t \in Threads : WaitReturn(t)

Spec == Init /\ [][Next]_vars

\* contextual.New(ctx) where ctx is context.Background() (d0 = 0) or
\* context.WithDeadline(context.Background(), d0)
InitDeadline ==
    /\ now = 1
    /\ \E d0 \in {0} \cup Deadlines :
        IF d0 = 0
        THEN /\ nodes = RootNodes
             /\ scopes = << RootScope >>
             /\ groups = << [n |-> 0, w |-> 0, sema |-> 0, err |-> Nil, ctx |-> 2] >>
        ELSE LET ns1 == withDeadlineNode(<<>>, <<>>, 0, 0, d0, Nil, 1)
                 ns2 == Append(ns1, childNode(ns1, 1, 0, "cancel", 0, Nil))
                 ns3 == Append(ns2, childNode(ns2, 2, 0, "cancel", 0, Nil))
             IN  /\ nodes = ns3
                 /\ scopes = << newScope(3, 2, FALSE, 1, 0, "New") >>
                 /\ groups = << [n |-> 0, w |-> 0, sema |-> 0, err |-> Nil, ctx |-> 3] >>
    /\ calls = [t \in Threads |-> Idle]

\* scopes are derived with and without deadlines from a root scope that
\* has a deadline or not, while time passes and scopes are cancelled
NextDeadline ==
    \/ \E p \in ScopeIds, d \in Deadlines : WithDeadline(p, d)
    \/ \E p \in ScopeIds, t \in Timeouts, c \in DeadlineCauses :
            WithTimeoutCause(p, t, c)
    \/ \E p \in ScopeIds : WithCancel(p)
    \/ \E p \in ScopeIds : WithSignalCancel(p)
    \/ \E s \in ScopeIds : ReplaceContext(s, "labels")
    \/ \E s \in ScopeIds : ReplaceContext(s, "fresh")
    \/ \E s \in ScopeIds : Cancel(s)
    \/ Tick
    \/ \E n \in NodeIds : DeadlineFires(n)

SpecDeadline == InitDeadline /\ [][NextDeadline]_vars

\* the scope a constructor returned: cancel calls (step by step once a
\* function has been pushed), pushes, context replacement, a cancellation
\* by the caller and writes to the value store
NextOps ==
    \/ Cancel(Top)
    \/ \E e \in Errs \cup {Nil} : CancelWithCause(Top, e)
    \/ \E t \in Threads : CallPushed(t)
    \/ \E t \in Threads : CallBase(t)
    \/ PushCancelFunc(Top)
    \/ PushCancelCauseFunc(Top)
    \/ \E cb \in {"labels", "fresh"} : ReplaceContext(Top, cb)
    \/ \E n \in NodeIds, e \in CallerErrs : CallerCancel(n, e)
    \/ \E v \in Vals : AddValue(Top, "k1", v)

SpecOps == InitNew /\ [][NextOps]_vars

\* ------------------------------------------------------ the value store
\* writes to the stores of a tree of scopes while scopes are derived
NextValues ==
    \/ \E s \in ScopeIds, k \in Keys, v \in Vals : AddValue(s, k, v)
    \/ \E p \in ScopeIds : WithCancel(p)
    \/ \E p \in ScopeIds, tm \in Timeouts : WithTimeout(p, tm)
    \/ \E p \in ScopeIds : WithSignalCancel(p)
    \/ \E p \in ScopeIds : Clone(p)

SpecValues == Init /\ [][NextValues]_vars

\* ------------------------------------------------------ typed accessors
\* the bytes of the decimal digits and of the letters, in order
DecDigits == <<"0", "1", "2", "3", "4", "5", "6", "7", "8", "9">>

Lowers == <<"a", "b", "c", "d", "e", "f", "g", "h", "i", "j", "k", "l", "m",
            "n", "o", "p", "q", "r", "s", "t", "u", "v", "w", "x", "y", "z">>

Uppers == <<"A", "B", "C", "D", "E", "F", "G", "H", "I", "J", "K", "L", "M",
            "N", "O", "P", "Q", "R", "S", "T", "U", "V", "W", "X", "Y", "Z">>

\* the place of byte c in seq, 0 when it is not there
IndexOf(seq, c) ==
    IF \E i \in DOMAIN seq : seq[i] = c
    THEN CHOOSE i \in DOMAIN seq : seq[i] = c
    ELSE 0

\* strconv's lower(c) = c | ('x' - 'X'): an upper-case letter gives the
\* lower-case one; of any other byte strconv only asks whether the result
\* is a letter, which it is exactly when the byte is one
lower(c) == IF IndexOf(Uppers, c) # 0 THEN Lowers[IndexOf(Uppers, c)] ELSE c

\* the bytes of the texts stored: digits, letters that are digits of a
\* base or base prefixes in either case, the signs, the underscore
Chars == {"0", "1", "4", "5", "6", "9", "a", "f", "b", "x", "X", "o",
          "-", "+", "_"}

Strs == UNION {[1..n -> Chars] : n \in 0..MaxStr}

\* the digit a byte stands for in the loop of strconv.ParseUint: c - '0'
\* for a decimal digit, lower(c) - 'a' + 10 for a letter; 36 (a digit of
\* no base) for any other byte, which is a syntax error there
DigitVal(c) ==
    IF IndexOf(DecDigits, c) # 0 THEN IndexOf(DecDigits, c) - 1
    ELSE IF IndexOf(Lowers, lower(c)) # 0 THEN IndexOf(Lowers, lower(c)) + 9
    ELSE 36

\* the digits of s read in the given base, most significant first
RECURSIVE DigitsVal(_, _, _)
DigitsVal(s, base, acc) ==
    IF s = <<>> THEN acc
    ELSE DigitsVal(Tail(s), base, acc * base + DigitVal(Head(s)))

\* the loop of strconv's underscoreOK over the bytes s; saw is the kind of
\* the last byte: "^" none yet, "0" a digit (or the base prefix), "_" an
\* underscore, "!" anything else.  An underscore must come after a digit
\* and before one
RECURSIVE underscoreScan(_, _, _)
underscoreScan(s, hex, saw) ==
    IF s = <<>> THEN saw # "_"
    ELSE IF IndexOf(DecDigits, Head(s)) # 0
              \/ (hex /\ DigitVal(Head(s)) \in 10..15)
         THEN underscoreScan(Tail(s), hex, "0")
    ELSE IF Head(s) = "_"
         THEN saw = "0" /\ underscoreScan(Tail(s), hex, "_")
    ELSE IF saw = "_" THEN FALSE
    ELSE underscoreScan(Tail(s), hex, "!")

\* strconv's underscoreOK(s): an optional sign and an optional base prefix
\* are skipped, then underscores may only separate digits
underscoreOK(s) ==
    LET s1  == IF Len(s) >= 1 /\ s[1] \in {"-", "+"} THEN Tail(s) ELSE s
        pre == Len(s1) >= 2 /\ s1[1] = "0" /\ lower(s1[2]) \in {"b", "o", "x"}
    IN  underscoreScan(IF pre THEN SubSeq(s1, 3, Len(s1)) ELSE s1,
                       pre /\ lower(s1[2]) = "x",
                       IF pre THEN "0" ELSE "^")

\* the digits of 2^63, the cutoff of strconv.ParseInt for 64 bits, in the
\* bases a prefix can select
Cutoff(base) ==
    CASE base = 2  -> <<1>> \o [i \in 1..63 |-> 0]
      [] base = 8  -> <<1>> \o [i \in 1..21 |-> 0]
      [] base = 16 -> <<8>> \o [i \in 1..15 |-> 0]
      [] OTHER     -> <<9, 2, 2, 3, 3, 7, 2, 0, 3, 6, 8, 5, 4, 7, 7, 5, 8, 0, 8>>

\* digits without the leading zeros
RECURSIVE StripZeros(_)
StripZeros(ds) ==
    IF ds # <<>> /\ Head(ds) = 0 THEN StripZeros(Tail(ds)) ELSE ds

\* how the number with digits a compares with the one with digits b
\* (neither has a leading zero): -1 less, 0 equal, 1 greater
RECURSIVE CmpDigits(_, _)
CmpDigits(a, b) ==
    IF Len(a) # Len(b) THEN (IF Len(a) < Len(b) THEN 0 - 1 ELSE 1)
    ELSE IF a = <<>> THEN 0
    ELSE IF Head(a) # Head(b) THEN (IF Head(a) < Head(b) THEN 0 - 1 ELSE 1)
    ELSE CmpDigits(Tail(a), Tail(b))

\* strconv.ParseUint(s, 0, 0) as strconv.ParseInt uses it: the base is
\* taken from the prefix (0b, 0o, 0x in either case with at least one more
\* byte; a leading 0 alone means octal), underscores are skipped, every
\* other byte must be a digit of the base, and the underscores must be
\* placed as underscoreOK asks.  ok is "no syntax error"; cmp compares the
\* number with 2^63; n is the number when it is below 2^63 (a larger one
\* does not fit the integers of the model checker)
ParseUint(s) ==
    IF s = <<>> THEN [ok |-> FALSE, cmp |-> 0 - 1, n |-> 0]
    ELSE LET pre  == s[1] = "0" /\ Len(s) >= 3 /\ lower(s[2]) \in {"b", "o", "x"}
             base == IF s[1] # "0" THEN 10
                     ELSE IF ~pre THEN 8
                     ELSE IF lower(s[2]) = "b" THEN 2
                     ELSE IF lower(s[2]) = "o" THEN 8 ELSE 16
             rest == IF s[1] # "0" THEN s
                     ELSE IF pre THEN SubSeq(s, 3, Len(s)) ELSE Tail(s)
             digs == SelectSeq(rest, LAMBDA c : c # "_")
             cmp  == CmpDigits(StripZeros([i \in DOMAIN digs |-> DigitVal(digs[i])]),
                               Cutoff(base))
         IN  IF \E i \in DOMAIN digs : DigitVal(digs[i]) >= base
             THEN [ok |-> FALSE, cmp |-> 0 - 1, n |-> 0]
             ELSE IF digs # rest /\ ~underscoreOK(s)
             THEN [ok |-> FALSE, cmp |-> 0 - 1, n |-> 0]
             ELSE [ok |-> TRUE, cmp |-> cmp,
                   n |-> IF cmp < 0 THEN DigitsVal(digs, base, 0) ELSE 0]

\* strconv.ParseInt(s, 0, 0) where int has 64 bits: an optional sign, + or
\* -, then ParseUint; a number of 2^63 or more, or below -2^63, is a range
\* error
ParseInt(s) ==
    IF s = <<>> THEN [ok |-> FALSE, n |-> 0]
    ELSE LET neg == s[1] = "-"
             un  == ParseUint(IF s[1] \in {"+", "-"} THEN Tail(s) ELSE s)
         IN  IF ~un.ok THEN [ok |-> FALSE, n |-> 0]
             ELSE IF (~neg /\ un.cmp >= 0) \/ (neg /\ un.cmp > 0)
             THEN [ok |-> FALSE, n |-> 0]
             ELSE [ok |-> TRUE,
                   n |-> IF ~neg THEN un.n
                         ELSE IF un.cmp = 0 THEN 0 - 2^63 ELSE 0 - un.n]

\* Cancellable.GetInt: the type switch has the cases int, int16, int32,
\* int64 and string; anything else, and an absent key, give 0
GetInt(s, k) ==
    LET r == GetE(s, k)
        v == r[1]
    IN  IF ~r[2] THEN 0
        ELSE IF v.t \in {"int", "int16", "int32", "int64"} THEN v.n
        ELSE IF v.t = "string"
             THEN IF ParseInt(v.s).ok THEN ParseInt(v.s).n ELSE 0
        ELSE 0

\* the fixed-width integer kinds of the language
SignedKinds == {"int", "int8", "int16", "int32", "int64"}
UnsignedKinds == {"uint", "uint8", "uint16", "uint32", "uint64"}

\* the values a caller stores before it asks for an integer
IntInputs ==
    {IntVal(t, n) : t \in SignedKinds, n \in {0 - 3, 0, 5}}
        \cup {IntVal(t, n) : t \in UnsignedKinds, n \in {0, 5}}
        \cup {StrVal(s) : s \in Strs}
        \cup {BoolVal(TRUE), NilVal, Val("float64", 2, <<>>)}

\* a root scope after AddValue("k1", x), or with no write at all
InitGetInt ==
    /\ nodes = RootNodes
    /\ \E x \in IntInputs \cup {Absent} :
          scopes = << [RootScope EXCEPT !.values["k1"] = x] >>
    /\ groups = << [n |-> 0, w |-> 0, sema |-> 0, err |-> Nil, ctx |-> 2] >>
    /\ now = 1
    /\ calls = [t \in Threads |-> Idle]

\* goroutine t calls GetInt(k) on scope s
GetIntCall(t, s, k) ==
    /\ calls[t].st = "idle"
    /\ calls' = [calls EXCEPT ![t] = [st |-> "int", s |-> s, k |-> k, r |-> GetInt(s, k)]]
    /\ UNCHANGED <<nodes, scopes, groups, now>>

NextGetInt == \E t \in Threads, s \in ScopeIds, k \in Keys : GetIntCall(t, s, k)

SpecGetInt == InitGetInt /\ [][NextGetInt]_vars

\* ------------------------------------------------ textual rendering
\* strconv's decimal text of a number n >= 0
RECURSIVE FormatUint(_)
FormatUint(n) ==
    IF n < 10 THEN <<DecDigits[n + 1]>>
    ELSE FormatUint(n \div 10) \o <<DecDigits[(n % 10) + 1]>>

\* the decimal text of an integer
FormatInt(n) == IF n < 0 THEN <<"-">> \o FormatUint(0 - n) ELSE FormatUint(n)

\* the name of a dynamic type as fmt writes it (%T), byte by byte
TypeName(t) ==
    CASE t = "int"     -> <<"i", "n", "t">>
      [] t = "int8"    -> <<"i", "n", "t", "8">>
      [] t = "int16"   -> <<"i", "n", "t", "1", "6">>
      [] t = "int32"   -> <<"i", "n", "t", "3", "2">>
      [] t = "int64"   -> <<"i", "n", "t", "6", "4">>
      [] t = "uint"    -> <<"u", "i", "n", "t">>
      [] t = "uint8"   -> <<"u", "i", "n", "t", "8">>
      [] t = "uint16"  -> <<"u", "i", "n", "t", "1", "6">>
      [] t = "uint32"  -> <<"u", "i", "n", "t", "3", "2">>
      [] t = "uint64"  -> <<"u", "i", "n", "t", "6", "4">>
      [] t = "bool"    -> <<"b", "o", "o", "l">>
      [] t = "float64" -> <<"f", "l", "o", "a", "t", "6", "4">>
      [] t = "string"  -> <<"s", "t", "r", "i", "n", "g">>
      [] OTHER         -> <<"?">>

\* fmt.Sprintf("%v", v) for the values stored here: the number in decimal,
\* true or false, <nil>, the text itself
SprintV(v) ==
    CASE v.t = "string" -> v.s
      [] v.t = "bool"   -> IF v.n = 1 THEN <<"t", "r", "u", "e">>
                                      ELSE <<"f", "a", "l", "s", "e">>
      [] v.t = "nil"    -> <<"<", "n", "i", "l", ">">>
      [] OTHER          -> FormatInt(v.n)

\* fmt.Sprintf("%s", v): the verb s is defined for strings only; for a
\* number or a bool fmt writes %!s(type=value), for nil %!s(<nil>)
SprintS(v) ==
    CASE v.t = "string" -> v.s
      [] v.t = "nil"    -> <<"%", "!", "s", "(">> \o SprintV(v) \o <<")">>
      [] OTHER          -> <<"%", "!", "s", "(">> \o TypeName(v.t) \o <<"=">>
                                \o SprintV(v) \o <<")">>

\* Cancellable.GetString: the string itself, Sprintf("%s", v) for any other
\* value, "" for an absent key
GetString(s, k) ==
    LET r == GetE(s, k)
    IN  IF ~r[2] THEN <<>>
        ELSE IF r[1].t = "string" THEN r[1].s
        ELSE SprintS(r[1])

\* the values a caller stores before it asks for a text
StringInputs ==
    {IntVal(t, n) : t \in {"int", "int64", "uint8"}, n \in {0, 7, 123}}
        \cup {IntVal("int", 0 - 45), BoolVal(TRUE), BoolVal(FALSE), NilVal,
              Val("float64", 2, <<>>)}
        \cup {StrVal(s) : s \in {<<>>, <<"a">>, <<"1", "2", "3">>, <<"%", "s">>}}

\* a root scope after AddValue("k1", x), or with no write at all
InitGetString ==
    /\ nodes = RootNodes
    /\ \E x \in StringInputs \cup {Absent} :
          scopes = << [RootScope EXCEPT !.values["k1"] = x] >>
    /\ groups = << [n |-> 0, w |-> 0, sema |-> 0, err |-> Nil, ctx |-> 2] >>
    /\ now = 1
    /\ calls = [t \in Threads |-> Idle]

\* goroutine t calls GetString(k) on scope s
GetStringCall(t, s, k) ==
    /\ calls[t].st = "idle"
    /\ calls' = [calls EXCEPT ![t] =
            [st |-> "str", s |-> s, k |-> k, r |-> GetString(s, k)]]
    /\ UNCHANGED <<nodes, scopes, groups, now>>

NextGetString ==
    \E t \in Threads, s \in ScopeIds, k \in Keys : GetStringCall(t, s, k)

SpecGetString == InitGetString /\ [][NextGetString]_vars

\* ------------------------------------------------ the conditional runner
\* Cancellable.SetContextKey: AddValue(key, value) with a bool
SetContextKey(s, k, b) == AddValue(s, k, BoolVal(b))

\* the number of times RunIf(k, f) calls f: once when GetE finds a bool
\* that is true, else never
RunIfRuns(s, k) ==
    LET r == GetE(s, k)
    IN  IF r[2] /\ r[1].t = "bool" /\ r[1].n = 1 THEN 1 ELSE 0

\* variant of RunIf: f is called whenever the key is found
RunIfFound(t, s, k) ==
    /\ calls[t].st = "idle"
    /\ calls' = [calls EXCEPT ![t] =
            [st |-> "runif", s |-> s, k |-> k,
             ran |-> IF GetE(s, k)[2] THEN 1 ELSE 0]]
    /\ UNCHANGED <<nodes, scopes, groups, now>>

\* goroutine t calls RunIf(k, f) on scope s; f only counts its calls
RunIf(t, s, k) ==
    /\ calls[t].st = "idle"
    /\ calls' = [calls EXCEPT ![t] =
            [st |-> "runif", s |-> s, k |-> k, ran |-> RunIfRuns(s, k)]]
    /\ UNCHANGED <<nodes, scopes, groups, now>>

\* values of other types stored under a flag's key
NonBools == {StrVal(<<"t", "r", "u", "e">>), IntVal("int", 1), NilVal}

\* flags are set, overwritten (with other types too) and tested
NextRunIf ==
    \/ \E s \in ScopeIds, k \in Keys, b \in BOOLEAN : SetContextKey(s, k, b)
    \/ \E s \in ScopeIds, k \in Keys, v \in NonBools : AddValue(s, k, v)
    \/ \E t \in Threads, s \in ScopeIds, k \in Keys : RunIf(t, s, k)

SpecRunIf == Init /\ [][NextRunIf]_vars

\* ------------------------------------------------ construction options
\* the options of options.go, by the function that makes them
Options == {"WithValues", "WithPProfLabels", "WithTimeoutOption",
            "WithDeadlineOption", "WithSignalCancelOption"}

Deriving == {"WithTimeoutOption", "WithDeadlineOption", "WithSignalCancelOption"}

\* the pairs handed to WithValues
Seeds == [k \in Keys |-> IF k = "k1" THEN StrVal(<<"a">>) ELSE IntVal("int", 1)]

\* the option lists of at most MaxOpts options that make at most MaxScopes
\* scopes
OptLists ==
    {opts \in UNION {[1..n -> Options] : n \in 0..MaxOpts} :
        Cardinality({i \in DOMAIN opts : opts[i] \in Deriving}) < MaxScopes}

\* out = opt(out): the option applied to the scope the previous one
\* returned (the last of st.scopes); a deriving option returns a new scope
applyOption(st, o) ==
    LET top == Len(st.scopes)
        sc  == st.scopes[top]
        n   == Len(st.nodes) + 1
    IN  CASE o = "WithValues" ->
                [st EXCEPT !.scopes[top].values = Seeds]
          [] o = "WithPProfLabels" ->
                [nodes  |-> Append(st.nodes,
                                childNode(st.nodes, sc.ctx, 0, "labels", 0, Nil)),
                 scopes |-> [st.scopes EXCEPT ![top].labels = TRUE,
                                              ![top].ctx = n]]
          [] o \in {"WithTimeoutOption", "WithDeadlineOption"} ->
                [nodes  |-> withDeadlineNode(st.nodes, st.scopes, sc.ctx, top, 1 + 1, Nil, 1),
                 scopes |-> Append(st.scopes,
                                newScope(n, n, TRUE, sc.errg, top, "deadline"))]
          [] OTHER ->
                [nodes  |-> Append(st.nodes,
                                childNode(st.nodes, sc.ctx, top, "signal", 0, Nil)),
                 scopes |-> Append(st.scopes,
                                newScope(n, n, TRUE, sc.errg, top, "signal"))]

\* for _, opt := range opts { out = opt(out) }
RECURSIVE applyOptions(_, _)
applyOptions(st, opts) ==
    IF opts = <<>> THEN st
    ELSE applyOptions(applyOption(st, Head(opts)), Tail(opts))

\* contextual.New(context.Background(), opts...): goroutine 1 holds the
\* options it passed
InitOpts ==
    \E opts \in OptLists :
        LET st == applyOptions([nodes |-> RootNodes, scopes |-> <<RootScope>>], opts)
        IN  /\ nodes = st.nodes
            /\ scopes = st.scopes
            /\ groups = << [n |-> 0, w |-> 0, sema |-> 0,
                             err |-> Nil, ctx |-> 2] >>
            /\ now = 1
            /\ calls = [t \in Threads |->
                          IF t = 1 THEN [st |-> "new", opts |-> opts] ELSE Idle]

\* goroutine t reads key k of scope s with GetE
ReadValue(t, s, k) ==
    /\ calls[t].st = "idle"
    /\ calls' = [calls EXCEPT ![t] = [st |-> "got", s |-> s, k |-> k, r |-> GetE(s, k)]]
    /\ UNCHANGED <<nodes, scopes, groups, now>>

NextNew ==
    \/ \E t \in Threads, s \in ScopeIds, k \in Keys : ReadValue(t, s, k)
    \/ \E s \in ScopeIds : Cancel(s)

SpecNew == InitOpts /\ [][NextNew]_vars

\* ------------------------------------------------ concurrent callers
\* goroutine t sees Done of scope s closed and reads context.Cause
Observe(t, s) ==
    /\ calls[t].st = "idle"
    /\ Closed(s)
    /\ calls' = [calls EXCEPT ![t] = [st |-> "read", s |-> s, e |-> Cause(s)]]
    /\ UNCHANGED <<nodes, scopes, groups, now>>

\* goroutines call Cancel and CancelWithCause on scopes nothing was
\* pushed on (c.cancel is the base cancel function) while others read
NextCalls ==
    \/ \E t \in Threads, s \in ScopeIds, e \in Errs \cup {Nil, Canceled} :
            EnterCancel(t, s, e)
    \/ \E t \in Threads : CallBase(t)
    \/ \E t \in Threads, s \in ScopeIds : Observe(t, s)

SpecCalls == InitNew /\ [][NextCalls]_vars

\* ------------------------------------------------ the cleanup chain
\* functions are pushed on a scope while goroutines cancel it
NextChain ==
    \/ \E s \in ScopeIds : PushCancelFunc(s)
    \/ \E s \in ScopeIds : PushCancelCauseFunc(s)
    \/ \E t \in Threads, s \in ScopeIds, e \in {Canceled, "e1", Nil} :
            EnterCancel(t, s, e)
    \/ \E t \in Threads : CallPushed(t)
    \/ \E t \in Threads : CallBase(t)

SpecChain == Init /\ [][NextChain]_vars

\* PushCancelFunc / PushCancelCauseFunc by goroutine t, first statement:
\* cancel := c.cancel reads the field, with no lock held
PushLoad(t, s, kind) ==
    /\ calls[t].st = "idle"
    /\ calls' = [calls EXCEPT ![t] =
            [st |-> "pushing", s |-> s, kind |-> kind, id |-> MaxPush + t,
             old |-> closure(scopes[s]).chain]]
    /\ UNCHANGED <<nodes, scopes, groups, now>>

\* second statement: c.cancel = the closure over f and the value read:
\* the field then holds f before the functions of that value (as they are
\* by now), whatever was stored in between; the functions it no longer
\* reaches are dropped
PushStore(t) ==
    /\ calls[t].st = "pushing"
    /\ LET s      == calls[t].s
           all    == {scopes[s].chain[i] : i \in DOMAIN scopes[s].chain}
                        \cup scopes[s].dropped
           cur(x) == CHOOSE y \in all : y.id = x.id
           new    == <<[kind |-> calls[t].kind, id |-> calls[t].id,
                        runs |-> 0, arg |-> Nil]>>
                        \o [i \in DOMAIN calls[t].old |-> cur(calls[t].old[i])]
       IN  scopes' = [scopes EXCEPT
               ![s].chain = new,
               ![s].dropped = {y \in all :
                                  \A i \in DOMAIN new : new[i].id # y.id}]
    /\ calls' = [calls EXCEPT ![t] =
            [st |-> "pushed", s |-> calls[t].s, kind |-> calls[t].kind,
             id |-> calls[t].id]]
    /\ UNCHANGED <<nodes, groups, now>>

\* goroutines push functions on a scope, statement by statement, while
\* others cancel it
NextPush ==
    \/ \E t \in Threads, s \in ScopeIds, k \in {"func", "causefunc"} :
            PushLoad(t, s, k)
    \/ \E t \in Threads : PushStore(t)
    \/ \E t \in Threads, s \in ScopeIds, e \in {Canceled, "e1"} :
            EnterCancel(t, s, e)
    \/ \E t \in Threads : CallPushed(t)
    \/ \E t \in Threads : CallBase(t)

SpecPush == Init /\ [][NextPush]_vars

\* functions are pushed on a scope and on scopes derived from it; the
\* scopes are cancelled (step by step where a function has been pushed), a
\* tracked task fails, a deadline passes
NextCleanup ==
    \/ \E s \in ScopeIds : PushCancelFunc(s)
    \/ \E s \in ScopeIds : Cancel(s)
    \/ \E s \in ScopeIds : CancelWithCause(s, "e1")
    \/ \E t \in Threads : CallPushed(t)
    \/ \E t \in Threads : CallBase(t)
    \/ \E p \in ScopeIds : WithCancel(p)
    \/ \E p \in ScopeIds : WithTimeout(p, 1)
    \/ Tick
    \/ \E n \in NodeIds : DeadlineFires(n)
    \/ \E s \in ScopeIds : Spawn(MaxCalls, 0, s, [kind |-> "ret", e |-> "te"])
    \/ \E t \in Threads : TaskReturn(t)
    \/ \E t \in Threads : TaskErrOnce(t)
    \/ \E t \in Threads : TaskDone(t)

SpecCleanup == Init /\ [][NextCleanup]_vars

\* profiler labels are attached to scopes (WithPProfLabels) while scopes
\* are derived and cancelled, deadlines pass and tracked tasks return
NextLabels ==
    \/ \E s \in ScopeIds : Alive /\ ReplaceContext(s, "labels")
    \/ \E s \in ScopeIds : Alive /\ Cancel(s)
    \/ \E s \in ScopeIds, e \in {"e1", Nil} : Alive /\ CancelWithCause(s, e)
    \/ \E p \in ScopeIds : Alive /\ WithCancel(p)
    \/ \E p \in ScopeIds : Alive /\ WithTimeout(p, 1)
    \/ Alive /\ Tick
    \/ \E n \in NodeIds : Alive /\ DeadlineFires(n)
    \/ \E t \in 1..MaxTasks, s \in ScopeIds, e \in {"te", Nil} :
            Spawn(t, 0, s, [kind |-> "ret", e |-> e])
    \/ \E t \in Threads : TaskReturn(t)
    \/ \E t \in Threads : TaskErrOnce(t)
    \/ \E t \in Threads : TaskDone(t)
    \/ \E t \in Threads : TaskRelease(t)
    \/ \E s \in ScopeIds : WaitCall(MaxCalls, s)
    \/ \E t \in Threads : WaitWake(t)
    \/ \E t \in Threads : WaitCancel(t)
    \/ \E t \in Threads : WaitReturn(t)

SpecLabels == Init /\ [][NextLabels]_vars

NextTasks ==
    \/ \E t \in Threads, u \in {0} \cup Threads, s \in ScopeIds, f \in TaskFuncs :
            FirstIdle(t, 1..(MaxCalls - 1)) /\ Spawn(t, u, s, f)
    \/ \E t \in Threads : TaskReturn(t)
    \/ \E t \in Threads : TaskErrOnce(t)
    \/ \E t \in Threads : TaskDone(t)
    \/ \E t \in Threads : TaskRelease(t)
    \/ \E t \in Threads, s \in ScopeIds :
            FirstIdle(t, 2..MaxCalls) /\ WaitCall(t, s)
    \/ \E t \in Threads : WaitWake(t)
    \/ \E t \in Threads : WaitCancel(t)
    \/ \E t \in Threads : WaitReturn(t)
    \/ \E s \in ScopeIds : Alive /\ Cancel(s)
    \/ \E p \in ScopeIds : Alive /\ WithCancel(p)
    \/ \E p \in ScopeIds : Alive /\ Clone(p)

SpecTasks == Init /\ [][NextTasks]_vars

\* tasks that return nil or e1 run in the group of a root scope built
\* over Background or over a context with a deadline; scopes are derived,
\* cancelled and expire, and callers wait
NextWaitRoot ==
    \/ \E t \in Threads, s \in ScopeIds, e \in {Nil, "e1"} :
            FirstIdle(t, 1..MaxTasks) /\ Spawn(t, 0, s, [kind |-> "ret", e |-> e])
    \/ \E t \in Threads : TaskReturn(t)
    \/ \E t \in Threads : TaskErrOnce(t)
    \/ \E t \in Threads : TaskDone(t)
    \/ \E t \in Threads : TaskRelease(t)
    \/ \E t \in Threads, s \in ScopeIds :
            FirstIdle(t, {MaxCalls}) /\ WaitCall(t, s)
    \/ \E t \in Threads : WaitWake(t)
    \/ \E t \in Threads : WaitCancel(t)
    \/ \E t \in Threads : WaitReturn(t)
    \/ \E s \in ScopeIds : Alive /\ Cancel(s)
    \/ \E p \in ScopeIds : Alive /\ WithCancel(p)
    \/ \E p \in ScopeIds : Alive /\ WithTimeout(p, 1)
    \/ \E p \in ScopeIds : Alive /\ Clone(p)
    \/ \E s \in ScopeIds : Alive /\ ReplaceContext(s, "fresh")
    \/ \E n \in NodeIds, e \in CallerErrs : Alive /\ CallerCancel(n, e)
    \/ Alive /\ Tick
    \/ \E n \in NodeIds : Alive /\ DeadlineFires(n)

SpecWaitRoot == InitDeadline /\ [][NextWaitRoot]_vars

\* tasks that ignore Done and a task that fails at once run in the group
\* of the root scope while the scope is cancelled, a timeout scope derived
\* from it expires, and callers wait
NextCoop ==
    \/ \E t \in Threads, s \in ScopeIds,
          f \in WorkFuncs \cup {[kind |-> "ret", e |-> "e1"]} :
            FirstIdle(t, 1..(MaxCalls - 1)) /\ Spawn(t, 0, s, f)
    \/ \E t \in Threads : TaskStep(t)
    \/ \E t \in Threads : TaskReturn(t)
    \/ \E t \in Threads : TaskErrOnce(t)
    \/ \E t \in Threads : TaskDone(t)
    \/ \E t \in Threads : TaskRelease(t)
    \/ \E t \in Threads, s \in ScopeIds :
            FirstIdle(t, {MaxCalls}) /\ WaitCall(t, s)
    \/ \E t \in Threads : WaitWake(t)
    \/ \E t \in Threads : WaitCancel(t)
    \/ \E t \in Threads : WaitReturn(t)
    \/ \E s \in ScopeIds : Alive /\ Cancel(s)
    \/ \E p \in ScopeIds : Alive /\ WithTimeout(p, 1)
    \/ Alive /\ Tick
    \/ \E n \in NodeIds : Alive /\ DeadlineFires(n)

SpecCoop == Init /\ [][NextCoop]_vars

\* fan-out (TestGo_ErrorCancelsOthers): tasks that fail with e1 at once,
\* tasks that block on Done and return the cause, and the slow task of the
\* test, which selects on a timer (returning an error) and on Done
\* (returning the cause)
FanFuncs ==
    {[kind |-> "ret", e |-> "e1"], [kind |-> "watch", e |-> Nil],
     [kind |-> "slow", e |-> Nil]}

\* the tasks are started through the root scope while callers wait, time
\* passes and a caller cancels with cause e2
NextFan ==
    \/ \E t \in Threads, s \in ScopeIds, f \in FanFuncs :
            FirstIdle(t, Threads) /\ Spawn(t, 0, s, f)
    \/ \E t \in Threads : TaskReturn(t)
    \/ \E t \in Threads : TaskErrOnce(t)
    \/ \E t \in Threads : TaskDone(t)
    \/ \E t \in Threads : TaskRelease(t)
    \/ \E t \in Threads, s \in ScopeIds :
            FirstIdle(t, Threads) /\ WaitCall(t, s)
    \/ \E t \in Threads : WaitWake(t)
    \/ \E t \in Threads : WaitCancel(t)
    \/ \E t \in Threads : WaitReturn(t)
    \/ \E s \in ScopeIds : Alive /\ CancelWithCause(s, "e2")
    \/ Alive /\ Tick

\* the scheduler runs every goroutine that can run: a function that can
\* return does, the epilogue of errgroup runs, a Wait that can go on does
SpecFan ==
    /\ Init
    /\ [][NextFan]_vars
    /\ \A t \in Threads :
        /\ WF_vars(TaskReturn(t)) /\ WF_vars(TaskErrOnce(t))
        /\ WF_vars(TaskDone(t)) /\ WF_vars(TaskRelease(t))
        /\ WF_vars(WaitWake(t)) /\ WF_vars(WaitCancel(t))
        /\ WF_vars(WaitReturn(t))

\* the scope made from scope p of st (contexts and scopes so far) at time
\* 1 by WithCancel (how = "cancel"), by WithTimeout(p, 1) ("deadline"), or
\* by CloneWithNewContext with a context of the caller's own ("clone")
derived(st, p, how) ==
    LET n  == Len(st.nodes) + 1
        pc == st.scopes[p].ctx
        g  == st.scopes[p].errg
    IN  CASE how = "cancel" ->
                [nodes  |-> Append(st.nodes,
                                childNode(st.nodes, pc, p, "cancel", 0, Nil)),
                 scopes |-> Append(st.scopes,
                                newScope(n, n, FALSE, g, p, "cancel"))]
          [] how = "deadline" ->
                [nodes  |-> withDeadlineNode(st.nodes, st.scopes, pc, p, 1 + 1, Nil, 1),
                 scopes |-> Append(st.scopes,
                                newScope(n, n, TRUE, g, p, "deadline"))]
          [] OTHER ->
                [nodes  |-> Append(st.nodes,
                                childNode(st.nodes, 0, 0, "caller", 0, Nil)),
                 scopes |-> Append(st.scopes,
                                newScope(n, n, FALSE, g, p, "clone"))]

\* the scopes of a tree of three
TreeScopes == 1..3

\* a root scope, a scope made from it and a scope made from that one, each
\* by WithCancel, WithTimeout or CloneWithNewContext
InitTree ==
    /\ \E h2, h3 \in {"cancel", "deadline", "clone"} :
        LET st == derived(derived([nodes |-> RootNodes,
                                   scopes |-> <<RootScope>>], 1, h2), 2, h3)
        IN  /\ nodes = st.nodes
            /\ scopes = st.scopes
    /\ groups = << [n |-> 0, w |-> 0, sema |-> 0, err |-> Nil, ctx |-> 2] >>
    /\ now = 1
    /\ calls = [t \in Threads |-> Idle]

\* the runtime fires a timer whose time has come
TimerFires == \E n \in NodeIds : DeadlineFires(n)

\* the scopes of the tree are cancelled, their contexts replaced, the
\* caller cancels its own contexts, a task started through one of them
\* returns nil or an error, a caller waits on the root scope, time passes
\* and timers fire
NextTree ==
    \/ \E s \in ScopeIds : Cancel(s)
    \/ \E s \in ScopeIds : ReplaceContext(s, "fresh")
    \/ \E n \in NodeIds, e \in CallerErrs : CallerCancel(n, e)
    \/ \E s \in ScopeIds, e \in TaskErrs \cup {Nil} :
            Spawn(MaxCalls, 0, s, [kind |-> "ret", e |-> e])
    \/ \E t \in Threads : TaskReturn(t)
    \/ \E t \in Threads : TaskErrOnce(t)
    \/ \E t \in Threads : TaskDone(t)
    \/ \E t \in Threads : TaskRelease(t)
    \/ WaitCall(1, 1)
    \/ \E t \in Threads : WaitWake(t)
    \/ \E t \in Threads : WaitCancel(t)
    \/ \E t \in Threads : WaitReturn(t)
    \/ Tick
    \/ TimerFires

\* the scheduler runs the goroutine of a task that can take a step, and
\* the runtime fires the timers that are due
SpecTree ==
    /\ InitTree
    /\ [][NextTree]_vars
    /\ WF_vars(TimerFires)
    /\ \A t \in Threads :
        /\ WF_vars(TaskReturn(t)) /\ WF_vars(TaskErrOnce(t))
        /\ WF_vars(TaskDone(t)) /\ WF_vars(TaskRelease(t))
        /\ WF_vars(WaitWake(t)) /\ WF_vars(WaitCancel(t))
        /\ WF_vars(WaitReturn(t))

\* ------------------------------------------------ the dispatcher
\* the three function types Go and GoLabelled accept
Shapes == {"FuncErr", "CtxErrFunc", "CtxualErrFunc"}

\* a typed nil of any of the three types
NilFunc == [kind |-> "nil", e |-> Nil]

DispatchFuncs == TaskFuncs \cup {NilFunc}

\* dispatchGoFunc: nil for a typed nil; otherwise a func() error that does
\* what f does, the context argument of the two context-taking types bound
\* to the scope
dispatchGoFunc(s, shape, f) ==
    IF f.kind = "nil" THEN NilFunc
    ELSE IF shape = "FuncErr" THEN f
    ELSE [kind |-> f.kind, e |-> f.e, arg |-> s]

\* the goroutines of group g started through GoLabelled whose function has
\* not returned yet
Labelled(g) == {t \in Threads : calls[t].st = "labelled" /\ calls[t].g = g}

\* what goroutine c holds once its Go or GoLabelled call has returned
dispatched(s, shape, lab, f) ==
    [st |-> "dispatched", s |-> s, shape |-> shape, lab |-> lab,
     nilf |-> (f.kind = "nil")]

\* the goroutine errgroup.Group.Go starts for the wrapped function of f
\* (st: "task", or "labelled" for the pair GoLabelled makes); late tells
\* that s was closed already, t0 is the time a function with a timer
\* starts at, first and open are set when the function returns
started(st, s, shape, lab, f) ==
    [st |-> st, s |-> s, g |-> scopes[s].errg,
     f |-> dispatchGoFunc(s, shape, f), late |-> Closed(s),
     t0 |-> IF f.kind \in {"value", "errwatch", "slow"} THEN now ELSE 0,
     first |-> FALSE, open |-> FALSE, lab |-> lab, fk |-> f.kind]

\* contextual.Go(ctx, f) called by goroutine c on scope s: the function is
\* wrapped, errgroup.Group.Go does g.wg.Add(1) (which panics in c when it
\* raises the counter from zero while waiters are registered) and starts
\* goroutine t, and the call returns
GoDispatch(c, t, s, shape, f) ==
    /\ Alive
    /\ c # t
    /\ calls[c].st \in {"idle", "dispatched"}
    /\ calls[t].st = "idle"
    /\ groups' = [groups EXCEPT ![scopes[s].errg].n = @ + 1]
    /\ calls' =
          IF groups[scopes[s].errg].n = 0 /\ groups[scopes[s].errg].w > 0
          THEN [calls EXCEPT ![c] = [st |-> "misused", s |-> s,
                                     g |-> scopes[s].errg]]
          ELSE [calls EXCEPT ![c] = dispatched(s, shape, FALSE, f),
                             ![t] = started("task", s, shape, FALSE, f)]
    /\ UNCHANGED <<nodes, scopes, now>>

\* contextual.GoLabelled(ctx, name, description, f): the function is
\* wrapped, Cancellable.GoLabelled hands errgroup.Group.Go a function that
\* starts f under pprof.Do in a goroutine of its own and blocks on errChan;
\* goroutine t stands for the pair
GoLabelled(c, t, s, shape, f) ==
    /\ Alive
    /\ c # t
    /\ calls[c].st \in {"idle", "dispatched"}
    /\ calls[t].st = "idle"
    /\ groups' = [groups EXCEPT ![scopes[s].errg].n = @ + 1]
    /\ calls' =
          IF groups[scopes[s].errg].n = 0 /\ groups[scopes[s].errg].w > 0
          THEN [calls EXCEPT ![c] = [st |-> "misused", s |-> s,
                                     g |-> scopes[s].errg]]
          ELSE [calls EXCEPT ![c] = dispatched(s, shape, TRUE, f),
                             ![t] = started("labelled", s, shape, TRUE, f)]
    /\ UNCHANGED <<nodes, scopes, now>>

\* the function of a labelled goroutine returns e (one that blocks only
\* once it can) in the goroutine of pprof.Do; e goes through errChan to
\* the function errgroup runs, which returns it to the goroutine errgroup
\* started (the channel is private to the pair: LabRun to LabClose below)
LabelledReturn(t) ==
    /\ Alive
    /\ calls[t].st = "labelled"
    /\ calls[t].f.kind # "nil"
    /\ \E e \in Results(t) :
          calls' = [calls EXCEPT
            ![t].st = "ended",
            ![t].f.e = e,
            ![t].open = ErrOf(nodes, groups[calls[t].g].ctx) = Nil,
            ![t].first =
                /\ e # Nil
                /\ \A u \in Spawned(calls[t].g) \ {t} :
                      ~(/\ calls[u].st \in {"ended", "reported",
                                            "releasing", "finished"}
                        /\ calls[u].f.e # Nil)]
    /\ UNCHANGED <<nodes, scopes, groups, now>>

\* a goroutine calls the nil function it was started with: a nil
\* dereference panics in that goroutine, where nothing recovers it.  In
\* the goroutine errgroup started, the deferred g.done() runs as the panic
\* unwinds: one is taken off the counter and, when that makes it zero
\* while waiters are registered, they are released (TaskRelease); the
\* process ends after that (Crash).  In the goroutine GoLabelled started
\* for pprof.Do nothing is deferred that touches the group
NilCall(t) ==
    /\ Alive
    /\ calls[t].st \in {"task", "labelled"}
    /\ calls[t].f.kind = "nil"
    /\ IF calls[t].st = "task"
       THEN LET g == calls[t].g
            IN  /\ groups' = [groups EXCEPT ![g].n = @ - 1]
                /\ calls' = [calls EXCEPT ![t].st =
                        IF groups[g].n = 1 /\ groups[g].w > 0
                        THEN "unwinding" ELSE "dying"]
       ELSE /\ calls' = [calls EXCEPT ![t].st = "panicked"]
            /\ UNCHANGED groups
    /\ UNCHANGED <<nodes, scopes, now>>

\* the panic of goroutine t has run its deferred calls: the runtime
\* reports it and ends the process
Crash(t) ==
    /\ Alive
    /\ calls[t].st = "dying"
    /\ calls' = [calls EXCEPT ![t].st = "panicked"]
    /\ UNCHANGED <<nodes, scopes, groups, now>>

\* tasks of every type, nil included, dispatched with and without labels,
\* and callers of Wait, until a panic ends the process
NextDispatch ==
    \/ \E c, t \in Threads, s \in ScopeIds, sh \in Shapes, f \in DispatchFuncs :
            GoDispatch(c, t, s, sh, f)
    \/ \E c, t \in Threads, s \in ScopeIds, sh \in Shapes, f \in DispatchFuncs :
            GoLabelled(c, t, s, sh, f)
    \/ \E t \in Threads : LabelledReturn(t)
    \/ \E t \in Threads : NilCall(t)
    \/ \E t \in Threads : Crash(t)
    \/ \E t \in Threads : TaskReturn(t)
    \/ \E t \in Threads : TaskErrOnce(t)
    \/ \E t \in Threads : TaskDone(t)
    \/ \E t \in Threads : TaskRelease(t)
    \/ \E t \in Threads, s \in ScopeIds : WaitCall(t, s)
    \/ \E t \in Threads : WaitWake(t)
    \/ \E t \in Threads : WaitCancel(t)
    \/ \E t \in Threads : WaitReturn(t)

SpecDispatch == Init /\ [][NextDispatch]_vars

\* Cancellable.GoLabelled(labelSet, f) statement by statement.  Goroutine t
\* is the function errgroup.Group.Go runs (wpc: where it is) together with
\* the goroutine it starts for pprof.Do (kpc: where that one is); errChan
\* is the unbuffered channel between them, sends and recvs count the sends
\* and receives that have completed on it, val is what f returned and got
\* what the receive gave.
\* errgroup.Group.Go adds one to the count and starts the function, which
\* makes errChan and defers its close
LabStart(t, s, f) ==
    /\ Alive
    /\ calls[t].st = "idle"
    /\ groups' = [groups EXCEPT ![scopes[s].errg].n = @ + 1]
    /\ calls' = [calls EXCEPT ![t] =
          IF groups[scopes[s].errg].n = 0 /\ groups[scopes[s].errg].w > 0
          THEN [st |-> "misused", s |-> s, g |-> scopes[s].errg]
          ELSE [st |-> "wrapper", s |-> s, g |-> scopes[s].errg, f |-> f,
                t0 |-> IF f.kind \in {"value", "errwatch", "slow"}
                       THEN now ELSE 0,
                wpc |-> "made", kpc |-> "none", errChan |-> "open",
                sends |-> 0, recvs |-> 0, val |-> Nil, got |-> Nil]]
    /\ UNCHANGED <<nodes, scopes, now>>

\* variant of the go statement: errChan is closed as soon as the worker
\* has been started (close not deferred)
LabSpawnThenClose(t) ==
    /\ calls[t].st = "wrapper"
    /\ calls[t].wpc = "made"
    /\ calls' = [calls EXCEPT ![t].wpc = "torecv", ![t].kpc = "run",
                              ![t].errChan = "closed"]
    /\ UNCHANGED <<nodes, scopes, groups, now>>

\* go pprof.Do(c.ctx, labelSet, ...): the worker is started and runs f;
\* the function goes on to its return statement
LabSpawn(t) ==
    /\ calls[t].st = "wrapper"
    /\ calls[t].wpc = "made"
    /\ calls' = [calls EXCEPT ![t].wpc = "torecv", ![t].kpc = "run"]
    /\ UNCHANGED <<nodes, scopes, groups, now>>

\* f returns in the worker (a watching f only once Done of its scope is
\* closed); the worker is at errChan <- val
LabRun(t) ==
    /\ calls[t].st = "wrapper"
    /\ calls[t].kpc = "run"
    /\ \E e \in Results(t) :
          calls' = [calls EXCEPT ![t].kpc = "send", ![t].val = e]
    /\ UNCHANGED <<nodes, scopes, groups, now>>

\* the worker executes errChan <- val: on a closed channel it panics; when
\* the receiver is blocked on the channel the value is handed over and
\* both go on; otherwise the worker blocks until a receiver comes
LabSend(t) ==
    /\ calls[t].st = "wrapper"
    /\ calls[t].kpc = "send"
    /\ calls' =
          IF calls[t].errChan = "closed"
          THEN [calls EXCEPT ![t].kpc = "panicked"]
          ELSE IF calls[t].wpc = "recv"
          THEN [calls EXCEPT ![t].kpc = "sent", ![t].wpc = "got",
                             ![t].sends = @ + 1, ![t].recvs = @ + 1,
                             ![t].got = calls[t].val]
          ELSE [calls EXCEPT ![t].kpc = "sending"]
    /\ UNCHANGED <<nodes, scopes, groups, now>>

\* the function executes <-errChan: on a closed channel it gets the zero
\* value at once; when the worker is blocked in its send the value is
\* taken and both go on; otherwise the function blocks until a sender comes
LabRecv(t) ==
    /\ calls[t].st = "wrapper"
    /\ calls[t].wpc = "torecv"
    /\ calls' =
          IF calls[t].errChan = "closed"
          THEN [calls EXCEPT ![t].wpc = "got", ![t].recvs = @ + 1]
          ELSE IF calls[t].kpc = "sending"
          THEN [calls EXCEPT ![t].kpc = "sent", ![t].wpc = "got",
                             ![t].sends = @ + 1, ![t].recvs = @ + 1,
                             ![t].got = calls[t].val]
          ELSE [calls EXCEPT ![t].wpc = "recv"]
    /\ UNCHANGED <<nodes, scopes, groups, now>>

\* the function returns what it received: the deferred close(errChan)
\* runs (a sender blocked on the channel panics) and the value is back in
\* the goroutine errgroup started, whose epilogue follows (TaskErrOnce,
\* TaskDone)
LabClose(t) ==
    /\ calls[t].st = "wrapper"
    /\ calls[t].wpc = "got"
    /\ calls' = [calls EXCEPT
            ![t].st = "ended", ![t].wpc = "done",
            ![t].errChan = "closed",
            ![t].kpc = IF @ = "sending" THEN "panicked" ELSE @,
            ![t].f = [kind |-> "ret", e |-> calls[t].got]]
    /\ UNCHANGED <<nodes, scopes, groups, now>>

\* labelled tasks that return nil or e1 or block on Done, started through
\* a scope and a WithCancel child of it, and a scope that is cancelled
NextChan ==
    \/ \E t \in Threads, s \in ScopeIds, f \in TaskFuncs :
            FirstIdle(t, 1..(MaxCalls - 1)) /\ LabStart(t, s, f)
    \/ \E t \in Threads : LabSpawn(t)
    \/ \E t \in Threads : LabRun(t)
    \/ \E t \in Threads : LabSend(t)
    \/ \E t \in Threads : LabRecv(t)
    \/ \E t \in Threads : LabClose(t)
    \/ \E t \in Threads : TaskErrOnce(t)
    \/ \E t \in Threads : TaskDone(t)
    \/ \E s \in ScopeIds : CancelWithCause(s, "e2")
    \/ \E p \in ScopeIds : WithCancel(p)

\* the scheduler runs every goroutine that can take a step
SpecChan ==
    /\ Init
    /\ [][NextChan]_vars
    /\ \A t \in Threads :
        /\ WF_vars(LabSpawn(t)) /\ WF_vars(LabRun(t)) /\ WF_vars(LabSend(t))
        /\ WF_vars(LabRecv(t)) /\ WF_vars(LabClose(t))
        /\ WF_vars(TaskErrOnce(t)) /\ WF_vars(TaskDone(t))

\* functions that return nil or e1 at once, and one that selects on Done
\* of its context (returning Err) and on a timer (returning an error),
\* are dispatched, with and without labels, through a root scope and the
\* timeout scope an option derived from it, before and after the scopes
\* are cancelled or expire
GateFuncs ==
    {[kind |-> "ret", e |-> e] : e \in {Nil, "e1"}}
        \cup {[kind |-> "errwatch", e |-> Nil]}

NextGate ==
    \/ \E t \in Threads, s \in ScopeIds, f \in GateFuncs :
            FirstIdle(t, Threads \ {1}) /\ GoDispatch(1, t, s, "CtxualErrFunc", f)
    \/ \E t \in Threads, s \in ScopeIds, f \in GateFuncs :
            FirstIdle(t, Threads \ {1}) /\ GoLabelled(1, t, s, "FuncErr", f)
    \/ \E t \in Threads : LabelledReturn(t)
    \/ \E t \in Threads : TaskReturn(t)
    \/ \E t \in Threads : TaskErrOnce(t)
    \/ \E t \in Threads : TaskDone(t)
    \/ \E t \in Threads : TaskRelease(t)
    \/ \E t \in Threads, s \in ScopeIds :
            FirstIdle(t, Threads \ {1}) /\ WaitCall(t, s)
    \/ \E t \in Threads : WaitWake(t)
    \/ \E t \in Threads : WaitCancel(t)
    \/ \E t \in Threads : WaitReturn(t)
    \/ \E s \in ScopeIds : Alive /\ Cancel(s)
    \/ \E s \in ScopeIds : Alive /\ CancelWithCause(s, "e2")
    \/ Alive /\ Tick
    \/ \E n \in NodeIds : Alive /\ DeadlineFires(n)

SpecGate == InitNew /\ [][NextGate]_vars

\* contextual.New(base), base being context.Background() or
\* context.WithValue(context.Background(), baseKey, "baseValue")
InitBind ==
    /\ now = 1
    /\ \E withValue \in BOOLEAN :
        IF withValue
        THEN LET ns1 == << childNode(<<>>, 0, 0, "value", 0, Nil) >>
                 ns2 == Append(ns1, childNode(ns1, 1, 0, "cancel", 0, Nil))
                 ns3 == Append(ns2, childNode(ns2, 2, 0, "cancel", 0, Nil))
             IN  /\ nodes = ns3
                 /\ scopes = << newScope(3, 2, FALSE, 1, 0, "New") >>
                 /\ groups = << [n |-> 0, w |-> 0, sema |-> 0,
                                 err |-> Nil, ctx |-> 3] >>
        ELSE /\ nodes = RootNodes
             /\ scopes = << RootScope >>
             /\ groups = << [n |-> 0, w |-> 0, sema |-> 0,
                             err |-> Nil, ctx |-> 2] >>
    /\ calls = [t \in Threads |-> Idle]

\* the function that looks up baseKey in its context and then selects on
\* Done of the context and on a timer
BindFuncs == {[kind |-> "value", e |-> Nil]}

\* functions of the three types are dispatched, with and without labels,
\* through the root scope, a WithCancel child or a clone over a context of
\* the caller's, the scopes are cancelled with a cause, and time passes
NextBind ==
    \/ \E t \in Threads, s \in ScopeIds, sh \in Shapes, f \in BindFuncs :
            FirstIdle(t, Threads \ {1}) /\ GoDispatch(1, t, s, sh, f)
    \/ \E t \in Threads, s \in ScopeIds, sh \in Shapes, f \in BindFuncs :
            FirstIdle(t, Threads \ {1}) /\ GoLabelled(1, t, s, sh, f)
    \/ \E t \in Threads : LabelledReturn(t)
    \/ \E t \in Threads : TaskReturn(t)
    \/ \E t \in Threads : TaskErrOnce(t)
    \/ \E t \in Threads : TaskDone(t)
    \/ \E t \in Threads : TaskRelease(t)
    \/ \E t \in Threads, s \in ScopeIds :
            FirstIdle(t, Threads \ {1}) /\ WaitCall(t, s)
    \/ \E t \in Threads : WaitWake(t)
    \/ \E t \in Threads : WaitCancel(t)
    \/ \E t \in Threads : WaitReturn(t)
    \/ \E s \in ScopeIds : Alive /\ CancelWithCause(s, "e1")
    \/ \E p \in ScopeIds : Alive /\ WithCancel(p)
    \/ \E p \in ScopeIds : Alive /\ Clone(p)
    \/ Alive /\ Tick

SpecBind == InitBind /\ [][NextBind]_vars

\* ================================================================ claims
\* the scope's cancel function cancels the context the scope reads (or one
\* it is derived from): the state every constructor and derivation leaves
\* a scope in; ReplaceContext with an unrelated context ends it
Bound(s) == scopes[s].tgt \in AncOrSelf(nodes, scopes[s].ctx)

\* the cause recorded by a cancel function called with e
Eff(e) == IF e = Nil THEN Canceled ELSE e

CustomCauses == Errs \cup TaskErrs \cup CallerErrs \cup (DeadlineCauses \ {Nil})

\* the timerCtx made by the derivation of a deadline scope, 0 if none
OwnTimer(s) ==
    LET tg == scopes[s].tgt
    IN  IF scopes[s].how # "deadline" THEN 0
        ELSE IF nodes[tg].kind = "timer" THEN tg
        ELSE IF scopes[s].from = 0 THEN nodes[tg].parent
        ELSE 0

\* C1: cause freeze.  Once a scope has a cause, no step that leaves the
\* scope reading the same context or a context derived from it (every
\* step of a Cancel or CancelWithCause call with any error, nil included,
\* every push and write, profiler labels) changes the cause retrievable
\* from it.
C1_CauseFrozen ==
    [][\A s \in ScopeIds :
          (/\ Cause(s) # Nil
           /\ \/ scopes'[s].ctx = scopes[s].ctx
              \/ nodes'[scopes'[s].ctx].parent = scopes[s].ctx)
              => Cause(s)' = Cause(s)]_vars

\* C1 witness: the scope's cause is e1 although two cancel calls ran after
\* a cause function was pushed, the last of them CancelWithCause(e2)
C1_Witness ==
    \E s \in ScopeIds : \E i \in DOMAIN scopes[s].chain :
        /\ Cause(s) = "e1"
        /\ scopes[s].chain[i].kind = "causefunc"
        /\ scopes[s].chain[i].runs = 2
        /\ scopes[s].chain[i].arg = "e2"

\* C2 (as claimed): when every cancel call in flight or returned targets
\* scope s, and one that began while s was open has returned, the cause of
\* s is one of the causes supplied to those calls and every reader that saw
\* s closed read that cause.
C2_OneSuppliedCauseWins ==
    \A s \in ScopeIds :
        LET on == {t \in Threads : calls[t].st \in {"cancelling", "returned"}}
            cs == {t \in on : calls[t].s = s}
        IN  (/\ on = cs
             /\ \E t \in cs : calls[t].st = "returned" /\ calls[t].open)
            => /\ Cause(s) \in {Eff(calls[t].e) : t \in cs}
               /\ \A r \in Threads :
                    (calls[r].st = "read" /\ calls[r].s = s)
                        => calls[r].e = Cause(s)

\* C3 (as claimed): a closed scope stays closed in every step.
C3_NeverReopens ==
    [][\A s \in ScopeIds : Closed(s) => Closed(s)']_vars

\* C4: Err of a scope is nil, Canceled or DeadlineExceeded, it is nil
\* exactly while no cause is recorded, and it is never a custom cause.
C4_ErrIsSentinel ==
    \A s \in ScopeIds :
        /\ Err(s) \in {Nil, Canceled, DeadlineExceeded}
        /\ Err(s) = Nil <=> Cause(s) = Nil
        /\ Err(s) \notin CustomCauses

\* C4 witness: a scope cancelled with a custom cause reports Canceled
C4_Witness ==
    \E s \in ScopeIds : Err(s) = Canceled /\ Cause(s) \in Errs

\* C5 (as claimed): CancelWithCause(e) on a scope with no cause yet (and
\* whose cancel function is bound to the context it reads) closes it with
\* cause e, or Canceled when e is nil.
C5_CancelWithCauseRecords ==
    [][\A s \in ScopeIds, e \in Errs \cup {Nil} :
          (Cause(s) = Nil /\ Bound(s) /\ CancelWithCause(s, e))
              => (Closed(s)' /\ Cause(s)' = Eff(e))]_vars

\* C6: when the timer of a deadline-derived scope fires while the scope is
\* open, the scope closes with Err = DeadlineExceeded and its cause is the
\* custom deadline cause, or DeadlineExceeded when none was given; and Err
\* is DeadlineExceeded only once the deadline of a timer context that the
\* context the scope reads is derived from (its own included) has been
\* reached.
C6_DeadlineElapses ==
    /\ [](\A s \in ScopeIds :
            Err(s) = DeadlineExceeded
                => \E n \in AncOrSelf(nodes, scopes[s].ctx) :
                        nodes[n].kind = "timer" /\ nodes[n].dl <= now)
    /\ [][\A s \in ScopeIds :
            (/\ OwnTimer(s) # 0
             /\ Bound(s)
             /\ Err(s) = Nil
             /\ DeadlineFires(OwnTimer(s)))
                => /\ Err(s)' = DeadlineExceeded
                   /\ Cause(s)' = IF nodes[OwnTimer(s)].dcause = Nil
                                  THEN DeadlineExceeded
                                  ELSE nodes[OwnTimer(s)].dcause]_vars

\* C6 witness: a deadline scope closed by its timer, with the custom cause
C6_Witness ==
    \E s \in ScopeIds :
        /\ OwnTimer(s) # 0
        /\ Err(s) = DeadlineExceeded
        /\ Cause(s) = "dc"
        /\ nodes[OwnTimer(s)].dcause = "dc"

\* C7: Cancel on an open deadline-derived scope (the cancel function the
\* derivation returns) closes it with Err = Canceled and cause Canceled;
\* afterwards nothing changes them, the deadline passing included, and a
\* scope whose Err is Canceled never reports the custom deadline cause.
C7_CancelBeforeDeadline ==
    /\ [](\A s \in ScopeIds :
            Err(s) = Canceled => Cause(s) \notin (DeadlineCauses \ {Nil}))
    /\ [][\A s \in ScopeIds :
            (/\ scopes[s].how = "deadline"
             /\ Bound(s)
             /\ Err(s) = Nil
             /\ Cancel(s))
                => (Err(s)' = Canceled /\ Cause(s)' = Canceled)]_vars
    /\ [][\A s \in ScopeIds :
            (/\ scopes[s].how = "deadline"
             /\ Err(s) = Canceled
             /\ scopes'[s].ctx = scopes[s].ctx)
                => (Err(s)' = Canceled /\ Cause(s)' = Cause(s))]_vars

\* C7 witness: a deadline scope with a custom deadline cause, cancelled by
\* its own cancel function (its parent is open), the deadline passed since
C7_Witness ==
    \E s \in ScopeIds :
        /\ OwnTimer(s) # 0
        /\ nodes[OwnTimer(s)].dcause = "dc"
        /\ nodes[OwnTimer(s)].dl <= now
        /\ Err(s) = Canceled
        /\ Cause(s) = Canceled
        /\ scopes[s].from # 0
        /\ ~Closed(scopes[s].from)

\* the scopes derived from p by WithCancel, WithCancelCause, WithTimeout,
\* WithDeadline or WithSignalCancel that still read their own context
DerivedFrom(p) ==
    {s \in ScopeIds :
        /\ scopes[s].from = p
        /\ scopes[s].how \in {"cancel", "deadline", "signal"}
        /\ Bound(s)}

\* C8: a Cancel or CancelWithCause call that closes parent p closes every
\* open scope derived from p with Err = Canceled and the parent's cause,
\* and leaves Err and cause of the derived scopes closed before unchanged.
C8_ParentPropagation ==
    [][\A p \in ScopeIds, e \in Errs \cup {Nil, Canceled} :
          (~Closed(p) /\ CancelWithCause(p, e) /\ Closed(p)')
              => \A s \in DerivedFrom(p) :
                    IF Closed(s)
                    THEN Err(s)' = Err(s) /\ Cause(s)' = Cause(s)
                    ELSE Err(s)' = Canceled /\ Cause(s)' = Cause(p)']_vars

\* C8 witness: a deadline or signal scope closed with its parent's custom
\* cause, which only the parent's cancellation gives it
C8_Witness ==
    \E s \in ScopeIds :
        /\ scopes[s].from # 0
        /\ s \in DerivedFrom(scopes[s].from)
        /\ scopes[s].wrap
        /\ Err(s) = Canceled
        /\ Cause(s) \in Errs
        /\ Cause(scopes[s].from) = Cause(s)

\* C9 (as claimed): for a child derived from parent p, both open and bound:
\* CancelWithCause(c1) on the parent makes c1 the cause of both, and
\* CancelWithCause(c2) on the child makes c2 the child's cause and leaves
\* the parent's cause alone.
C9_ParentChildCauses ==
    [][\A p \in ScopeIds, c \in Errs :
          \A s \in DerivedFrom(p) :
            (~Closed(p) /\ ~Closed(s) /\ Bound(p))
              => /\ CancelWithCause(p, c) => (Cause(p)' = c /\ Cause(s)' = c)
                 /\ CancelWithCause(s, c)
                        => (Cause(s)' = c /\ Cause(p)' = Cause(p))]_vars

\* C10: a derived or cloned scope closed through its own trigger (Cancel,
\* CancelWithCause, its timer, its signal, the cancel function of the
\* context it was cloned with) leaves Err and cause of the scope it was
\* derived from unchanged.
C10_OriginalUnchanged ==
    [][\A s \in ScopeIds :
          (/\ scopes[s].from # 0
           /\ \/ Cancel(s)
              \/ \E e \in Errs \cup {Nil} : CancelWithCause(s, e)
              \/ DeadlineFires(scopes[s].tgt)
              \/ SignalArrives(scopes[s].tgt)
              \/ \E e \in CallerErrs : CallerCancel(scopes[s].tgt, e))
              => /\ Err(scopes[s].from)' = Err(scopes[s].from)
                 /\ Cause(scopes[s].from)' = Cause(scopes[s].from)]_vars

\* C10 witness: the derived scope is closed by its own trigger, the scope
\* it was derived from is open
C10_Witness ==
    \E s \in ScopeIds :
        /\ scopes[s].from # 0
        /\ Bound(s)
        /\ Closed(s)
        /\ ~Closed(scopes[s].from)

\* C11 (as claimed): first error wins.  The error a group keeps is never
\* replaced once set; a task that returned, whatever it returned and
\* whether the group has failed or not, takes one off the outstanding
\* count; and the error kept is that of the first task that returned a
\* non-nil error.
C11_FirstErrorWins ==
    /\ [][\A g \in DOMAIN groups :
            groups[g].err # Nil => groups'[g].err = groups[g].err]_vars
    /\ [][\A t \in Threads :
            (calls[t].st \in {"ended", "reported"} /\ TaskDone(t))
                => groups'[calls[t].g].n = groups[calls[t].g].n - 1]_vars
    /\ [](\A g \in DOMAIN groups :
            groups[g].err # Nil
                => \E t \in Spawned(g) :
                      calls[t].first /\ calls[t].f.e = groups[g].err)

\* the scopes of group g that read the group's context or one derived from it
InGroupTree(g) ==
    {s \in ScopeIds :
        /\ scopes[s].errg = g
        /\ groups[g].ctx \in AncOrSelf(nodes, scopes[s].ctx)}

\* C12 (as claimed): a tracked task that returned a non-nil error E while
\* the context of its group was open, and whose error errgroup has been
\* offered, has cancelled the scope bound to the group: the context is
\* closed with Err = Canceled and cause E.
C12_TaskErrorCancelsScope ==
    \A t \in Threads :
        (/\ calls[t].st \in {"reported", "releasing", "finished"}
         /\ calls[t].f.e # Nil
         /\ calls[t].open)
            => /\ ErrOf(nodes, groups[calls[t].g].ctx) = Canceled
               /\ CauseOf(nodes, groups[calls[t].g].ctx) = calls[t].f.e

\* C13 (as claimed): the count of a group is the number of its goroutines
\* that have not returned; Wait returns only when that is zero, so every
\* task of the group, those started by tasks while Wait was blocked
\* included, has returned; the value Wait returns is the group's kept
\* error: nil when no task returned a non-nil error, else an error some
\* task returned.
C13_WaitReturnsAfterAll ==
    /\ [](\A g \in DOMAIN groups : groups[g].n = Cardinality(Running(g)))
    /\ [][\A t \in Threads :
            (calls[t].st = "released" /\ WaitReturn(t))
                => LET g == calls[t].g
                       done == {u \in Threads :
                                   calls[u].st = "finished" /\ calls[u].g = g}
                   IN  /\ Running(g) = {}
                       /\ calls'[t].e = groups[g].err
                       /\ calls'[t].e = Nil
                            <=> \A u \in done : calls[u].f.e = Nil
                       /\ calls'[t].e # Nil
                            => \E u \in done : calls[u].f.e = calls'[t].e]_vars

\* the fan-out of group g: a task that returns e1 is running in it
FanOut(g) ==
    \E u \in Threads :
        /\ calls[u].st = "task" /\ calls[u].g = g
        /\ calls[u].f.kind = "ret" /\ calls[u].f.e = "e1"

\* what the fan-out scenario leaves out: the timer of a slow task came
\* before Done was closed, a caller cancelled a scope with a cause of its
\* own, or the WaitGroup panicked
OutsideFanOut ==
    \/ \E u \in Threads : "f" \in DOMAIN calls[u] /\ calls[u].f.e = "slow"
    \/ \E u \in Threads : calls[u].st = "misused"
    \/ \E s \in ScopeIds : Cause(s) = "e2"

\* C14 (as claimed): fan-out failure.  With a task that returns e1 running
\* in a group, whose other tasks block until Done is closed and then
\* return, every task of the group eventually returns and a Wait of the
\* group eventually returns e1 (unless a timer, a caller's own cause or a
\* panic of the WaitGroup gets in first).
C14_FanOutFailure ==
    /\ \A t \in Threads :
          (calls[t].st = "task" /\ FanOut(calls[t].g))
              ~> (calls[t].st \in {"releasing", "finished"} \/ OutsideFanOut)
    /\ \A t \in Threads :
          (calls[t].st \in {"waiting", "woken", "released"}
             /\ FanOut(calls[t].g))
              ~> (\/ calls[t].st = "waited" /\ calls[t].e = "e1"
                  \/ OutsideFanOut)

\* the scopes s was derived from, nearest first in the from-chain
RECURSIVE ScopeAncestors(_)
ScopeAncestors(s) ==
    IF scopes[s].from = 0 THEN {}
    ELSE {scopes[s].from} \cup ScopeAncestors(scopes[s].from)

\* a task of the group of scope s has returned a non-nil error, which
\* errgroup has not been offered yet
TaskFailed(s) ==
    \E t \in Threads :
        /\ calls[t].st = "ended" /\ calls[t].f.e # Nil
        /\ calls[t].g = scopes[s].errg

\* C15 (as claimed): a scope s made from a contextual parent is eventually
\* closed when a scope it was made from (directly or not) is closed, when
\* a task of the shared group has returned a non-nil error, and when its
\* deadline has come.
C15_DerivedSeesCancellation ==
    \A s \in TreeScopes :
        /\ \A p \in TreeScopes :
              (p \in ScopeAncestors(s) /\ Closed(p)) ~> Closed(s)
        /\ TaskFailed(s) ~> Closed(s)
        /\ (Deadline(s) # 0 /\ Deadline(s) <= now) ~> Closed(s)

\* the context scope s reads is the one scope p reads or is derived from it
ReadsUnder(s, p) == scopes[p].ctx \in AncOrSelf(nodes, scopes[s].ctx)

\* C15 (amended): a scope s made from a contextual parent is eventually
\* closed when a scope p it was made from (directly or not) is closed, as
\* long as s reads a context derived from the one p reads; it is eventually
\* closed when a task of the shared group has returned a non-nil error, as
\* long as it reads a context derived from the group's; and it is
\* eventually closed when the deadline of the context it reads has come,
\* as long as it reads that context.
C15_DerivedSeesContext ==
    \A s \in TreeScopes :
        /\ \A p \in TreeScopes :
              (p \in ScopeAncestors(s) /\ Closed(p) /\ ReadsUnder(s, p))
                  ~> (Closed(s) \/ ~ReadsUnder(s, p))
        /\ (TaskFailed(s) /\ s \in InGroupTree(scopes[s].errg))
              ~> (Closed(s) \/ s \notin InGroupTree(scopes[s].errg))
        /\ \A d \in Deadlines :
              (Deadline(s) = d /\ d <= now)
                  ~> (Closed(s) \/ Deadline(s) # d)

\* C15 witness: the third scope, made by WithCancel from a timeout scope
\* made from the root, was closed by the error of a task started through
\* the root, before the deadline came
C15_Witness ==
    /\ scopes[2].how = "deadline" /\ scopes[3].how = "cancel"
    /\ ReadsUnder(3, 2) /\ ReadsUnder(2, 1)
    /\ Err(3) = Canceled /\ Cause(3) \in TaskErrs
    /\ \E t \in Threads :
          /\ calls[t].st = "finished" /\ calls[t].s = 1
          /\ calls[t].f.e = Cause(3)

\* the scope at the root of the tree of derivations s belongs to
RECURSIVE RootOf(_)
RootOf(s) == IF scopes[s].from = 0 THEN s ELSE RootOf(scopes[s].from)

SameTree(a, b) == RootOf(a) = RootOf(b)

\* C16 (as claimed): a scope made from another by CloneWithNewContext
\* (directly or by a With* derivation) has the group of the scope it was
\* made from; so a task started through any scope of a tree counts for
\* every scope of the tree; when a Wait on any of them returns, the
\* function of no task started through any of them is still running; and
\* two Waits on scopes of the tree that return with the same tasks started
\* return the same error.
C16_SharedGroup ==
    /\ [](\A s \in ScopeIds :
            scopes[s].from # 0 => scopes[s].errg = scopes[scopes[s].from].errg)
    /\ [](\A t, u \in Threads :
            (/\ calls[t].st = "waited" /\ calls[u].st = "waited"
             /\ SameTree(calls[t].s, calls[u].s)
             /\ calls[t].k = calls[u].k)
                => calls[t].e = calls[u].e)
    /\ [][\A t \in Threads :
            /\ (calls[t].st = "idle" /\ calls'[t].st = "task")
                  => \A q \in ScopeIds :
                        SameTree(q, calls'[t].s)
                            => groups'[scopes[q].errg].n = groups[scopes[q].errg].n + 1
            /\ (calls[t].st = "released" /\ WaitReturn(t))
                  => /\ \A u \in Threads :
                          ~(/\ calls[u].st = "task"
                            /\ SameTree(calls[u].s, calls[t].s))
                     /\ calls'[t].e =
                          groups[scopes[RootOf(calls[t].s)].errg].err]_vars

\* C17 (as claimed): a scope made by CloneWithNewContext (any derivation)
\* finds every key stored in the scope it was made from, with its value.
C17_DerivedSharesValues ==
    \A s \in ScopeIds : \A k \in Keys :
        (scopes[s].from # 0 /\ GetE(scopes[s].from, k)[2])
            => GetE(s, k) = GetE(scopes[s].from, k)

\* C19: every key is absent at construction (GetE gives nil and false);
\* AddValue(k, v) makes GetE(k) give v and true and changes no other key
\* and no other scope's store; no other step changes what GetE gives; Get
\* gives what GetE gives, nil for an absent key.
C19_ValueRoundTrip ==
    /\ \A s \in ScopeIds, k \in Keys : GetE(s, k) = <<NilVal, FALSE>>
    /\ [](\A s \in ScopeIds, k \in Keys :
            /\ Get(s, k) = GetE(s, k)[1]
            /\ ~GetE(s, k)[2] => Get(s, k) = NilVal)
    /\ [][\A s \in ScopeIds, k \in Keys :
            IF \E v \in Vals : AddValue(s, k, v)
            THEN \E v \in Vals : AddValue(s, k, v) /\ GetE(s, k)' = <<v, TRUE>>
            ELSE GetE(s, k)' = GetE(s, k)]_vars

\* C19 witness: a derived scope holds k1 = 1 and k2 = "a" after writes to
\* both keys, while the scope it was made from holds k1 = "a" and no k2
C19_Witness ==
    \E s \in ScopeIds :
        /\ GetE(s, "k1") = <<IntVal("int", 1), TRUE>>
        /\ GetE(s, "k2") = <<StrVal(<<"a">>), TRUE>>
        /\ scopes[s].from # 0
        /\ GetE(scopes[s].from, "k1") = <<StrVal(<<"a">>), TRUE>>
        /\ ~GetE(scopes[s].from, "k2")[2]

\* C18 (as claimed): when WithValues is among the options given to New, at
\* any position, the scope New returned has every seeded pair: GetE(k)
\* gives the seeded value and true.
C18_SeededValuesReadable ==
    (calls[1].st = "new" /\ \E i \in DOMAIN calls[1].opts : calls[1].opts[i] = "WithValues")
        => \A k \in Keys : GetE(Top, k) = <<Seeds[k], TRUE>>

\* C20 (as claimed): GetInt(k) is the stored number for a value of any
\* fixed-width integer kind, the parsed number for text that parses as an
\* integer, and 0 for an absent key, other text and other types.
C20_GetIntAnyIntegerKind ==
    \A t \in Threads :
        calls[t].st = "int"
            => LET v == scopes[calls[t].s].values[calls[t].k]
               IN  calls[t].r =
                      IF v.t \in SignedKinds \cup UnsignedKinds THEN v.n
                      ELSE IF v.t = "string" /\ ParseInt(v.s).ok
                           THEN ParseInt(v.s).n
                      ELSE 0

\* C21 (as claimed): GetString(k) is the stored string unchanged, the
\* default textual rendering (the verb v of fmt) of a value that is not a
\* string (the int 123 gives "123"), and the empty string for an absent key.
C21_GetStringRenders ==
    \A t \in Threads :
        calls[t].st = "str"
            => LET v == scopes[calls[t].s].values[calls[t].k]
               IN  calls[t].r =
                      IF v = Absent THEN <<>>
                      ELSE IF v.t = "string" THEN v.s
                      ELSE SprintV(v)

\* C22: a RunIf(k, f) call runs f exactly once when the store holds the
\* bool true under k and not at all when k is absent or holds false or a
\* value that is not a bool; the call changes neither the store nor any
\* context or group.
C22_RunIfOnlyWhenTrue ==
    [][\A t \in Threads, s \in ScopeIds, k \in Keys :
          RunIf(t, s, k)
              => /\ calls'[t].ran =
                        IF scopes[s].values[k] = BoolVal(TRUE) THEN 1 ELSE 0
                 /\ UNCHANGED <<nodes, scopes, groups, now>>]_vars

\* C22 witness: one key holds true and its function ran once; the other
\* holds the int 1 (not a bool) and its function did not run
C22_Witness ==
    \E t, u \in Threads :
        /\ calls[t].st = "runif" /\ calls[t].ran = 1
        /\ scopes[calls[t].s].values[calls[t].k] = BoolVal(TRUE)
        /\ calls[u].st = "runif" /\ calls[u].ran = 0
        /\ scopes[calls[u].s].values[calls[u].k] = IntVal("int", 1)

\* C23 (as claimed): a Go or GoLabelled call handed a typed nil of any of
\* the three function types does not return normally to its caller (the
\* fault is raised in the calling goroutine), and no goroutine started for
\* the task is where the fault is raised.
C23_NilDispatchFaultsCaller ==
    /\ \A c \in Threads : calls[c].st = "dispatched" => ~calls[c].nilf
    /\ \A t \in Threads : calls[t].st # "panicked"

\* C24 (as claimed): labelled dispatch is, for the task group, the same
\* as unlabelled dispatch, for any function, nil included.  The count of a
\* group is the number of goroutines started by Go or GoLabelled whose
\* function has not ended (as long as the WaitGroup has not panicked);
\* each dispatch, labelled or not, raises the count by one and touches no
\* context; the return of a labelled function changes neither count, kept
\* error nor any context until errgroup gets the result; errgroup then
\* keeps a first non-nil error and closes the open scopes of the group
\* with that cause; and a Wait returns the kept error, and not while a
\* function, labelled or not, is running.
C24_LabelledSameAsUnlabelled ==
    /\ []((\A t \in Threads : calls[t].st # "misused")
            => \A g \in DOMAIN groups :
                  groups[g].n = Cardinality(Running(g) \cup Labelled(g)))
    /\ [][\A c, t \in Threads, s \in ScopeIds, sh \in Shapes, f \in DispatchFuncs :
            (GoDispatch(c, t, s, sh, f) \/ GoLabelled(c, t, s, sh, f))
                => /\ groups'[scopes[s].errg].n = groups[scopes[s].errg].n + 1
                   /\ groups'[scopes[s].errg].err = groups[scopes[s].errg].err
                   /\ nodes' = nodes]_vars
    /\ [][\A t \in Threads :
            LabelledReturn(t) => (groups' = groups /\ nodes' = nodes)]_vars
    /\ [][\A t \in Threads :
            (calls[t].st = "ended" /\ calls[t].lab /\ TaskErrOnce(t))
                => LET g == calls[t].g
                       e == calls[t].f.e
                   IN  /\ groups'[g].err = IF groups[g].err = Nil THEN e
                                           ELSE groups[g].err
                       /\ groups[g].err = Nil
                            => \A s \in InGroupTree(g) :
                                  ~Closed(s) => (Err(s)' = Canceled /\ Cause(s)' = e)
                       /\ groups[g].err # Nil => nodes' = nodes]_vars
    /\ [][\A t \in Threads :
            (calls[t].st = "released" /\ WaitReturn(t))
                => /\ \A u \in Threads :
                          ~(/\ calls[u].st \in {"task", "labelled"}
                            /\ calls[u].g = calls[t].g)
                   /\ calls'[t].e = groups[calls[t].g].err]_vars

\* C25 (as claimed): Cancel is idempotent.  No pushed function has run
\* more than once, and no step of a Cancel or CancelWithCause call that
\* began after an earlier call had closed the scope changes a scope or a
\* context.
C25_CancelIdempotent ==
    /\ [](\A s \in ScopeIds :
            /\ \A i \in DOMAIN scopes[s].chain : scopes[s].chain[i].runs <= 1
            /\ \A f \in scopes[s].dropped : f.runs <= 1)
    /\ [][\A t \in Threads :
            (/\ calls[t].st = "cancelling"
             /\ ~calls[t].open
             /\ calls'[t] # calls[t])
                => (scopes' = scopes /\ nodes' = nodes)]_vars

\* C26: the cleanup chain is LIFO.  In every Cancel or CancelWithCause
\* call, with f1, ..., fn the functions pushed on the scope (in that order)
\* when the call began, the i-th thing the call runs is the function
\* pushed as number n - i + 1, one after the other, and the base cancel
\* function runs after all of them, last, just before the call returns.
C26_CleanupLIFO ==
    \A t \in Threads :
        calls[t].st \in {"cancelling", "returned"}
            => LET log == calls[t].log
                   n   == Len(calls[t].fn.chain)
               IN  /\ Len(log) <= n + 1
                   /\ \A i \in DOMAIN log :
                        IF i <= n
                        THEN log[i].kind # "base" /\ log[i].id = n - i + 1
                        ELSE log[i].kind = "base"
                   /\ calls[t].st = "returned" <=> Len(log) = n + 1

\* C26 witness: a call that began after a function and then a cause
\* function were pushed has run the cause function, then the function,
\* then the base, and returned
C26_Witness ==
    \E t \in Threads :
        /\ calls[t].st = "returned"
        /\ Len(calls[t].log) = 3
        /\ calls[t].log[1].id = 2 /\ calls[t].log[1].kind = "causefunc"
        /\ calls[t].log[2].id = 1 /\ calls[t].log[2].kind = "func"
        /\ calls[t].log[3].kind = "base"

\* C27 (as claimed): whenever a signal-triggered scope is closed (by its
\* own Cancel or CancelWithCause, its parent, a failed task or a signal),
\* the stop function of its signal listener has been called.
C27_SignalStopOnAnyCancel ==
    \A s \in ScopeIds :
        (scopes[s].how = "signal" /\ Bound(s) /\ Closed(s))
            => nodes[scopes[s].tgt].stopped

\* the context the labelled context of scope s was made from
Unlabelled(s) == nodes[scopes[s].ctx].parent

\* C28: attaching profiler labels to a scope makes it read a new context
\* and leaves Err, cause and deadline of every scope as they were, and a
\* labelled scope is cancelled like an unlabelled one: its Err and cause
\* are at any time those of the context it read before; its own Cancel or
\* CancelWithCause closes it with Err = Canceled and the cause of the call
\* (Canceled when the cancel function is a wrapped context.CancelFunc); it
\* is closed whenever the scope it was made from is; and a tracked task
\* whose error the group keeps closes it with Err = Canceled and that
\* error as cause.
C28_LabelsKeepCancellation ==
    /\ [][\A s \in ScopeIds :
            ReplaceContext(s, "labels")
                => /\ scopes'[s].labels
                   /\ scopes'[s].ctx # scopes[s].ctx
                   /\ \A x \in ScopeIds :
                        /\ Err(x)' = Err(x)
                        /\ Cause(x)' = Cause(x)
                        /\ Deadline(x)' = Deadline(x)]_vars
    /\ [](\A s \in ScopeIds :
            (scopes[s].labels /\ nodes[scopes[s].ctx].kind = "labels")
                => /\ Unlabelled(s) # 0
                   /\ Err(s) = ErrOf(nodes, Unlabelled(s))
                   /\ Cause(s) = CauseOf(nodes, Unlabelled(s)))
    /\ [][\A s \in ScopeIds, e \in Errs \cup {Nil, Canceled} :
            (scopes[s].labels /\ ~Closed(s) /\ CancelWithCause(s, e))
                => /\ Err(s)' = Canceled
                   /\ Cause(s)' = IF scopes[s].wrap THEN Canceled ELSE Eff(e)]_vars
    /\ [](\A s \in ScopeIds :
            (scopes[s].labels /\ scopes[s].from # 0 /\ Closed(scopes[s].from))
                => Closed(s))
    /\ [][\A s \in ScopeIds, t \in Threads :
            (/\ scopes[s].labels /\ ~Closed(s)
             /\ calls[t].st = "ended" /\ calls[t].g = scopes[s].errg
             /\ groups[scopes[s].errg].err = Nil
             /\ TaskErrOnce(t))
                => Err(s)' = Canceled /\ Cause(s)' = calls[t].f.e]_vars

\* C28 witness: a labelled scope derived from the labelled root scope was
\* closed by its own CancelWithCause, and a task failure then closed the
\* root scope
C28_Witness ==
    /\ Len(scopes) = 2
    /\ scopes[1].labels /\ scopes[2].labels
    /\ nodes[scopes[1].ctx].kind = "labels"
    /\ nodes[scopes[2].ctx].kind = "labels"
    /\ scopes[2].from = 1 /\ scopes[2].how = "cancel"
    /\ Err(2) = Canceled /\ Cause(2) = "e1"
    /\ Err(1) = Canceled /\ Cause(1) = "te"
    /\ groups[1].err = "te"

\* C29 (as claimed): when a scope closes, by its own Cancel or
\* CancelWithCause, by the cancellation of its parent, by its deadline or
\* by the failure of a tracked task, every function pushed on it has run.
C29_CleanupOnAnyTrigger ==
    [][\A s \in ScopeIds :
          (~Closed(s) /\ Closed(s)')
              => \A i \in DOMAIN scopes'[s].chain :
                    scopes'[s].chain[i].runs >= 1]_vars

\* the functions of kind k among those a call's closure holds
Held(t, k) == {i \in DOMAIN calls[t].fn.chain : calls[t].fn.chain[i].kind = k}

\* C30: in a Cancel or CancelWithCause call, every function pushed with
\* PushCancelCauseFunc that the call runs is handed the error the call was
\* given (Canceled for Cancel); the base cancel function, the step of the
\* call that closes the done-signal, runs only when every pushed function
\* of the call has run, so a call that has returned has run each of its
\* cause functions with its error and left the scope closed.
C30_CauseFuncGetsCause ==
    /\ [](\A t \in Threads :
            calls[t].st \in {"cancelling", "returned"}
                => /\ \A i \in DOMAIN calls[t].log :
                        calls[t].log[i].kind = "causefunc"
                            => calls[t].log[i].arg = calls[t].e
                   /\ calls[t].st = "returned"
                        => /\ Closed(calls[t].s)
                           /\ \A i \in Held(t, "causefunc") :
                                \E j \in DOMAIN calls[t].log :
                                    /\ calls[t].log[j].id = calls[t].fn.chain[i].id
                                    /\ calls[t].log[j].arg = calls[t].e)
    /\ [][\A t \in Threads :
            (calls[t].st = "cancelling" /\ calls'[t].st = "returned")
                => \A i \in DOMAIN calls[t].fn.chain :
                      \E j \in DOMAIN calls[t].log :
                          calls[t].log[j].id = calls[t].fn.chain[i].id]_vars

\* C30 witness: CancelWithCause("e1") has run a cause function with "e1"
\* and closed the scope with that cause, and a Cancel call has run the
\* same function with Canceled
C30_Witness ==
    \E t, u \in Threads :
        /\ calls[t].st = "returned" /\ calls[t].e = "e1" /\ calls[t].open
        /\ calls[t].log[1].kind = "causefunc" /\ calls[t].log[1].arg = "e1"
        /\ Cause(calls[t].s) = "e1"
        /\ calls[u].st = "returned" /\ calls[u].e = Canceled
        /\ calls[u].s = calls[t].s
        /\ calls[u].log[1].kind = "causefunc" /\ calls[u].log[1].arg = Canceled
        /\ calls[u].log[1].id = calls[t].log[1].id

\* C31 (as claimed): no push is lost.  The function of every push that has
\* returned is held by the scope's cancel function, so a Cancel call that
\* begins after two goroutines have pushed runs both functions and the base
\* cancel function.
C31_NoPushLost ==
    \A u \in Threads :
        calls[u].st = "pushed"
            => \E i \in DOMAIN scopes[calls[u].s].chain :
                    scopes[calls[u].s].chain[i].id = calls[u].id

\* C32 (as claimed): cancellation is cooperative.  A running task is
\* changed by no step but a statement or the return of its own function:
\* no Cancel, deadline or failure of another task ends it.  A task that
\* never looks at the done-signal returns only when it has run all its
\* statements, whether the scope is closed or not; until it has returned
\* it is counted by its group, and no Wait of the group returns.
C32_CooperativeCancellation ==
    /\ [][\A t \in Threads :
            calls[t].st = "task"
                => /\ calls'[t] = calls[t] \/ TaskStep(t) \/ TaskReturn(t)
                   /\ calls'[t].st \in {"task", "ended"}
                   /\ (calls[t].f.kind = "work" /\ calls'[t].st = "ended")
                        => calls[t].f.left = 0]_vars
    /\ [](\A g \in DOMAIN groups : Cardinality(Running(g)) <= groups[g].n)
    /\ [][\A t \in Threads :
            (calls[t].st = "released" /\ WaitReturn(t))
                => \A u \in Threads :
                      ~(/\ calls[u].st = "task" /\ calls[u].g = calls[t].g
                        /\ calls[u].f.kind = "work")]_vars

\* the smaller of two times
Earlier(a, b) == IF a <= b THEN a ELSE b

\* C33: Deadline() is the nearest enclosing deadline.  The scope made by
\* WithDeadline(p, d) reports the earlier of d and p's deadline when p has
\* one, and d when p has none; a scope derived without a deadline reports
\* its parent's; a scope with no deadline among the contexts it reads
\* reports none (0); and the deadline of a derived scope is never later
\* than that of the scope it was derived from.
C33_NearestDeadline ==
    /\ [][\A p \in ScopeIds, d \in Deadlines :
            WithDeadline(p, d)
                => DeadlineOf(nodes', scopes', scopes'[Len(scopes')].ctx) =
                      IF Deadline(p) # 0 THEN Earlier(d, Deadline(p)) ELSE d]_vars
    /\ [][\A p \in ScopeIds :
            (WithCancel(p) \/ WithSignalCancel(p))
                => DeadlineOf(nodes', scopes', scopes'[Len(scopes')].ctx) = Deadline(p)]_vars
    /\ [](\A s \in ScopeIds :
            /\ Deadline(s) = 0
                <=> \A n \in Enclosing(nodes, scopes, scopes[s].ctx) :
                        nodes[n].kind # "timer"
            /\ \A p \in ScopeIds :
                  (s \in DerivedFrom(p) /\ Deadline(p) # 0)
                      => Deadline(s) # 0 /\ Deadline(s) <= Deadline(p))

\* C33 witness: a scope derived with deadline 2 from a root scope whose
\* deadline is 1 reports 1
C33_Witness ==
    \E s \in ScopeIds :
        /\ scopes[s].how = "deadline" /\ scopes[s].from = 1
        /\ Deadline(1) = 1
        /\ Deadline(s) = 1
        /\ nodes[scopes[s].ctx].kind = "cancel"

\* C34 (as claimed): once a Wait has returned, the group's error is
\* settled.  A Wait called after that, on any scope of the same group,
\* that returns with no task started in the group since the earlier one
\* returned, returns the value the earlier one returned.
C34_SettledErrorImmutable ==
    [][\A t, u \in Threads :
          (/\ calls[t].st = "released" /\ WaitReturn(t)
           /\ u \in calls[t].prior
           /\ calls[u].k = Cardinality(Spawned(calls[t].g)))
              => calls'[t].e = calls[u].e]_vars

\* C35 (as claimed): a function of a context-taking type dispatched by Go
\* or GoLabelled through scope s is bound to s: when it looks up a key of
\* the base context it gets what Value of s gives (it fails with its own
\* error when s has no such key); when s has the key and the function
\* selects on Done of its argument and on a timer, it returns a non-nil
\* error only once s is closed, and that error is the cause of s, and nil
\* only once the timer is due; and a Wait that returns once the function
\* has returned the first non-nil error of the group returns that error.
C35_TaskReceivesItsScope ==
    /\ [][\A c, t \in Threads, s \in ScopeIds, sh \in Shapes \ {"FuncErr"},
            f \in BindFuncs :
            (/\ GoDispatch(c, t, s, sh, f) \/ GoLabelled(c, t, s, sh, f)
             /\ calls'[c].st # "misused")
                => calls'[t].f.arg = s /\ calls'[t].f.kind = f.kind]_vars
    /\ [][\A t \in Threads :
            (/\ calls[t].st \in {"task", "labelled"}
             /\ calls[t].f.kind = "value"
             /\ "arg" \in DOMAIN calls[t].f
             /\ TaskReturn(t) \/ LabelledReturn(t))
                => LET s == calls[t].f.arg
                       e == calls'[t].f.e
                   IN  IF ValueOf(nodes, scopes, scopes[s].ctx) = Nil
                       THEN e = "noval"
                       ELSE /\ e # Nil => Closed(s) /\ e = Cause(s)
                            /\ e = Nil => now > calls[t].t0]_vars
    /\ [][\A t, u \in Threads :
            (/\ calls[t].st = "released" /\ WaitReturn(t)
             /\ u \in Spawned(calls[t].g)
             /\ calls[u].first)
                => calls'[t].e = calls[u].f.e]_vars

\* C36: ReplaceContext changes the context the scope reads and nothing
\* else: cancel function, pushed functions, group and value store of the
\* scope, the other scopes, the groups and every existing context are as
\* before; with profiler labels the scope reads a context derived from
\* the one it read, with the same Err and cause; with a context of the
\* caller's the scope reads that context,
\* so that cancelling it closes the scope; and a Cancel call on a scope
\* whose context was replaced by an unrelated one cancels the context the
\* scope was made with and leaves what the scope reads as it is.
C36_ReplaceContextFrame ==
    /\ [][\A s \in ScopeIds, cb \in {"labels", "fresh"} :
            ReplaceContext(s, cb)
                => /\ scopes'[s].tgt = scopes[s].tgt
                   /\ scopes'[s].wrap = scopes[s].wrap
                   /\ scopes'[s].chain = scopes[s].chain
                   /\ scopes'[s].errg = scopes[s].errg
                   /\ scopes'[s].values = scopes[s].values
                   /\ \A x \in ScopeIds \ {s} : scopes'[x] = scopes[x]
                   /\ groups' = groups
                   /\ \A n \in NodeIds : nodes'[n] = nodes[n]
                   /\ cb = "fresh"
                        => /\ scopes'[s].ctx = Len(nodes) + 1
                           /\ nodes'[scopes'[s].ctx].kind = "caller"
                   /\ cb = "labels"
                        => /\ scopes'[s].ctx = Len(nodes) + 1
                           /\ nodes'[scopes'[s].ctx].kind = "labels"
                           /\ nodes'[scopes'[s].ctx].parent = scopes[s].ctx
                           /\ Err(s)' = Err(s) /\ Cause(s)' = Cause(s)]_vars
    /\ [][\A n \in NodeIds, e \in CallerErrs :
            CallerCancel(n, e)
                => \A s \in ScopeIds :
                      scopes[s].ctx = n => (Closed(s)' /\ Err(s)' = Canceled)]_vars
    /\ [][\A s \in ScopeIds :
            (/\ ~Bound(s)
             /\ \/ scopes[s].chain = <<>> /\ Cancel(s)
                \/ \E t \in Threads :
                      /\ calls[t].st = "cancelling"
                      /\ calls[t].s = s
                      /\ CallBase(t))
                => /\ nodes'[scopes[s].tgt].err # Nil
                   /\ Err(s)' = Err(s) /\ Cause(s)' = Cause(s)]_vars

\* C36 witness: a scope with a pushed function and a stored value had its
\* context replaced by one of the caller's; cancelling that context has
\* closed the scope, while the context its cancel function cancels is open
\* and the pushed function has not run
C36_Witness ==
    \E s \in ScopeIds :
        /\ nodes[scopes[s].ctx].kind = "caller"
        /\ Err(s) = Canceled
        /\ nodes[scopes[s].tgt].err = Nil
        /\ scopes[s].chain # <<>>
        /\ \A i \in DOMAIN scopes[s].chain : scopes[s].chain[i].runs = 0
        /\ scopes[s].values # EmptyValues

\* C37 (as claimed): when a Wait returns, the root scope is closed with
\* Err = Canceled and every scope derived from it is closed.
C37_WaitClosesRootCanceled ==
    [][\A t \in Threads :
          (calls[t].st = "released" /\ calls'[t].st = "waited")
              => /\ Closed(1)' /\ Err(1)' = Canceled
                 /\ \A x \in ScopeIds : Closed(x)']_vars

\* C37 (amended): Wait cancels the context of the group before it
\* returns.  That step closes every scope that reads the group's context
\* or one derived from it (the root scope, and the scopes derived from it,
\* unless they were given another context), with Err = Canceled for a
\* scope that was open and Err unchanged (DeadlineExceeded after a
\* deadline) for one that was closed, and changes no other scope; and
\* when Wait returns all those scopes are closed.
C37_WaitClosesRoot ==
    [][\A t \in Threads :
          /\ (calls[t].st = "woken" /\ WaitCancel(t))
              => LET g == calls[t].g
                 IN  \A x \in ScopeIds :
                        IF x \in InGroupTree(g)
                        THEN /\ Closed(x)'
                             /\ Err(x)' = IF Closed(x) THEN Err(x) ELSE Canceled
                        ELSE Err(x)' = Err(x) /\ Cause(x)' = Cause(x)
          /\ (calls[t].st = "released" /\ WaitReturn(t))
              => \A x \in InGroupTree(calls[t].g) :
                    /\ Closed(x)
                    /\ Err(x)' = Err(x) /\ Cause(x)' = Cause(x)]_vars

\* C37 witness: every task returned nil, Wait returned nil, and the root
\* scope, whose deadline has not come, and a scope derived from it are
\* closed with Err = Canceled and cause Canceled
C37_Witness ==
    \E w, t \in Threads :
        /\ calls[w].st = "waited" /\ calls[w].e = Nil
        /\ calls[t].st = "finished" /\ calls[t].f.e = Nil
        /\ groups[1].err = Nil
        /\ Deadline(1) > now
        /\ 1 \in InGroupTree(1)
        /\ Err(1) = Canceled /\ Cause(1) = Canceled
        /\ Len(scopes) = 2 /\ scopes[2].how = "cancel"
        /\ Err(2) = Canceled /\ Cause(2) = Canceled

\* the labelled pairs: goroutines started by GoLabelled
Pairs == {t \in Threads : "errChan" \in DOMAIN calls[t]}

\* C38: errChan is used once and safely.  At most one send and one
\* receive complete on it, and they complete together; no send meets a
\* closed channel; the channel is closed only when that receive is done;
\* the function returns to errgroup the value f returned; and once f has
\* returned the send completes, the receive completes and the function
\* returns, so that nobody is left blocked.
C38_ResultChannelSafe ==
    /\ [](\A t \in Pairs :
            /\ calls[t].sends <= 1 /\ calls[t].recvs = calls[t].sends
            /\ calls[t].kpc # "panicked"
            /\ calls[t].errChan = "closed"
                  => (calls[t].recvs = 1 /\ calls[t].wpc = "done")
            /\ calls[t].kpc \in {"send", "sending"}
                  => calls[t].errChan = "open"
            /\ calls[t].wpc \in {"got", "done"}
                  => /\ calls[t].kpc = "sent"
                     /\ calls[t].got = calls[t].val
            /\ calls[t].wpc = "done" => calls[t].f.e = calls[t].val)
    /\ \A t \in Threads :
          (t \in Pairs /\ calls[t].kpc \in {"send", "sending"})
              ~> (/\ t \in Pairs
                  /\ calls[t].kpc = "sent" /\ calls[t].wpc = "done"
                  /\ calls[t].sends = 1 /\ calls[t].recvs = 1
                  /\ calls[t].st = "finished")

\* C38 witness: of two labelled pairs running at once, one has handed e1
\* over its channel, closed it and ended, its receiver having been first
\* at the channel; in the other the worker is blocked in its send, the
\* receiver not having come yet
C38_Witness ==
    \E t, u \in Pairs :
        /\ t # u
        /\ calls[t].st = "finished" /\ calls[t].errChan = "closed"
        /\ calls[t].val = "e1" /\ calls[t].got = "e1" /\ calls[t].sends = 1
        /\ calls[u].st = "wrapper" /\ calls[u].kpc = "sending"
        /\ calls[u].wpc = "torecv"

\* C39 (as claimed): spawning is not gated by cancellation.  Go and
\* GoLabelled can be called on a closed scope; the call starts the task
\* and raises the count of the group by one, and changes no context; no
\* Wait of the group returns while the function of such a task is
\* running; and when such a task is the first to return a non-nil error,
\* the group keeps that error, while Err and cause of every closed scope
\* stay as they were.
C39_SpawnNotGated ==
    /\ [](\A c, t \in Threads, s \in ScopeIds :
            (/\ Alive /\ c # t /\ Closed(s)
             /\ calls[c].st \in {"idle", "dispatched"} /\ calls[t].st = "idle")
                => /\ ENABLED GoDispatch(c, t, s, "CtxualErrFunc",
                                         [kind |-> "ret", e |-> "e1"])
                   /\ ENABLED GoLabelled(c, t, s, "FuncErr",
                                         [kind |-> "ret", e |-> "e1"]))
    /\ [][\A c, t \in Threads, s \in ScopeIds, f \in GateFuncs :
            (/\ Closed(s)
             /\ \/ GoDispatch(c, t, s, "CtxualErrFunc", f)
                \/ GoLabelled(c, t, s, "FuncErr", f)
             /\ calls'[c].st # "misused")
                => /\ calls'[t].st \in {"task", "labelled"}
                   /\ calls'[t].late
                   /\ groups'[scopes[s].errg].n = groups[scopes[s].errg].n + 1
                   /\ nodes' = nodes]_vars
    /\ [][\A t \in Threads :
            (calls[t].st = "released" /\ WaitReturn(t))
                => \A u \in Threads :
                      ~(/\ calls[u].st \in {"task", "labelled"}
                        /\ calls[u].g = calls[t].g
                        /\ calls[u].late)]_vars
    /\ [](\A t \in Threads :
            (/\ calls[t].st \in {"reported", "releasing", "finished"}
             /\ calls[t].late /\ calls[t].first)
                => groups[calls[t].g].err = calls[t].f.e)
    /\ [][\A t \in Threads :
            (calls[t].st = "ended" /\ calls[t].late /\ TaskErrOnce(t))
                => \A x \in ScopeIds :
                      Closed(x) => (Err(x)' = Err(x) /\ Cause(x)' = Cause(x))]_vars
====
